---- MODULE Spec2Model ----
(***************************************************************************)
(* A model of the cli-manager plugin pipeline (openshift/cli-manager):     *)
(*   - image.Extract: the reverse-order layer scan that writes the         *)
(*     requested files of an image into a tar+gzip archive;                *)
(*   - git.Repo: Upsert / Delete of one manifest file plus a commit;       *)
(*   - controller.Controller.sync: DeletePlugin, UpsertPlugin,             *)
(*     convertKrewPlugin and updateStatusCondition, driven by a            *)
(*     name-keyed work queue with one worker;                              *)
(*   - the HTTP handlers of PrepareGitServer and the cancellation of the   *)
(*     root context of RunCLIManager.                                      *)
(*                                                                         *)
(* Strings that the code takes apart (paths, platform tags, file names)    *)
(* are sequences of tokens: "/" and "_" are tokens of their own, every     *)
(* other token is a run of characters the code never splits.               *)
(***************************************************************************)
EXTENDS Integers, Sequences, FiniteSets, TLC

(***************************************************************************)
(* Bounds of the model.                                                    *)
(***************************************************************************)
MaxLayers == 2      \* layers of an image handed to Extract
MaxContent == 2     \* distinct non-empty file contents
MaxFiles == 2       \* file operations of one platform entry

None == "none"

(***************************************************************************)
(* Paths.  path/filepath.Clean and strings.TrimPrefix on token sequences.  *)
(***************************************************************************)
RECURSIVE CleanComps(_, _, _, _)
CleanComps(p, i, acc, rooted) ==
  IF i > Len(p) THEN acc
  ELSE LET t == p[i] IN
    IF t = "/" \/ t = "." THEN CleanComps(p, i + 1, acc, rooted)
    ELSE IF t = ".."
      THEN IF Len(acc) > 0 /\ acc[Len(acc)] # ".."
             THEN CleanComps(p, i + 1, SubSeq(acc, 1, Len(acc) - 1), rooted)
           ELSE IF rooted THEN CleanComps(p, i + 1, acc, rooted)
           ELSE CleanComps(p, i + 1, Append(acc, ".."), rooted)
    ELSE CleanComps(p, i + 1, Append(acc, t), rooted)

RECURSIVE JoinSlash(_)
JoinSlash(comps) ==
  IF Len(comps) = 0 THEN <<>>
  ELSE IF Len(comps) = 1 THEN comps
  ELSE <<comps[1], "/">> \o JoinSlash(Tail(comps))

Clean(p) ==
  IF Len(p) = 0 THEN <<".">>
  ELSE LET rooted == p[1] = "/"
           body == JoinSlash(CleanComps(p, 1, <<>>, rooted))
       IN IF rooted THEN <<"/">> \o body
          ELSE IF Len(body) = 0 THEN <<".">> ELSE body

TrimPrefixSlash(s) == IF Len(s) > 0 /\ s[1] = "/" THEN Tail(s) ELSE s
TrimPrefixV(s) == IF Len(s) > 0 /\ s[1] = "v" THEN Tail(s) ELSE s

(***************************************************************************)
(* The tar entries of a layer.  An entry is a header (name, typeflag) and  *)
(* its content; content 0 is the empty content, so header.Size = 0 iff     *)
(* content = 0.                                                            *)
(***************************************************************************)
TypeReg == "reg"
TypeDir == "dir"

Entry(n, t, c) == [name |-> n, typeflag |-> t, content |-> c]
HeaderSize(e) == IF e.content = 0 THEN 0 ELSE 1

FromA == <<"/", "bin", "/", "a">>
FromB == <<"/", "bin", "/", "b">>
NameA == <<"bin", "/", "a">>
NameDotA == <<".", "/", "bin", "/", "a">>
NameB == <<"bin", "/", "b">>
NameWhA == <<"bin", "/", ".wh.a">>
NameDirBin == <<"bin", "/">>
NameDirA == <<"bin", "/", "a", "/">>

\* The whiteout marker of a path: ".wh." in front of its last component.
WhiteoutToken(t) == IF t = "a" THEN ".wh.a" ELSE IF t = "b" THEN ".wh.b" ELSE None
WhiteoutOf(p) == SubSeq(p, 1, Len(p) - 1) \o <<WhiteoutToken(p[Len(p)])>>

(***************************************************************************)
(* image.Extract (the revision the controller calls):                      *)
(*   Extract(img, platform, destinationName) ([]FileLocation, error)       *)
(* A fault names the one call of the environment that fails in this run:   *)
(* kind "layers" (img.Layers), "create" (os.Create), "uncompress"          *)
(* (layer.Uncompressed of layer `layer`), "next" (tarReader.Next of layer  *)
(* `layer`), "header" / "copy" (tw.WriteHeader / io.Copy of the first      *)
(* entry written from layer `layer`), or None.  Layer Len(layers) is the   *)
(* most recent one, as in v1.Image.Layers.                                 *)
(***************************************************************************)
FileOp(f) == [from |-> f, to |-> <<".">>]
NoFault == [kind |-> None, layer |-> 0]

Written(n, c, whole) == [name |-> n, content |-> c, complete |-> whole]

\* The loop `for _, target := range platform.Files` for one tar header.
\* A failed tw.WriteHeader or io.Copy is answered by `continue`; the tar
\* writer keeps its error, so every later WriteHeader fails as well.
RECURSIVE MatchTargets(_, _, _, _, _, _, _)
MatchTargets(st, hdrName, e, files, k, fault, layer) ==
  IF k > Len(files) THEN st
  ELSE IF hdrName # TrimPrefixSlash(files[k].from)
    THEN MatchTargets(st, hdrName, e, files, k + 1, fault, layer)
  ELSE LET st1 == [st EXCEPT !.processed = @ \cup {files[k].from}]
           headerFails == st.twErr \/ (fault.kind = "header" /\ fault.layer = layer)
           copyFails == fault.kind = "copy" /\ fault.layer = layer
       IN IF headerFails
            THEN MatchTargets([st1 EXCEPT !.twErr = TRUE],
                              hdrName, e, files, k + 1, fault, layer)
          ELSE IF copyFails
            THEN MatchTargets([st1 EXCEPT !.twErr = TRUE,
                                          !.archive = Append(@, Written(hdrName, 0, FALSE))],
                              hdrName, e, files, k + 1, fault, layer)
          ELSE [st1 EXCEPT !.archive = Append(@, Written(hdrName, e.content, TRUE))]

\* ProcessEntry without the filepath.Clean of the header name.
ProcessEntryNoClean(st, e, files, fault, layer) ==
  IF e.typeflag = TypeDir THEN st
  ELSE IF HeaderSize(e) = 0 THEN st
  ELSE LET hdrName == e.name IN
    IF Len(hdrName) = 0 THEN st
    ELSE IF hdrName \in st.processed THEN st
    ELSE MatchTargets(st, hdrName, e, files, 1, fault, layer)

\* One round of the loop over tarReader.Next() of a layer.
ProcessEntry(st, e, files, fault, layer) ==
  IF e.typeflag = TypeDir THEN st
  ELSE IF HeaderSize(e) = 0 THEN st
  ELSE LET hdrName == Clean(e.name) IN
    IF Len(hdrName) = 0 THEN st
    ELSE IF hdrName \in st.processed THEN st
    ELSE MatchTargets(st, hdrName, e, files, 1, fault, layer)

RECURSIVE ScanEntries(_, _, _, _, _, _)
ScanEntries(st, entries, j, files, fault, layer) ==
  IF j > Len(entries) THEN st
  ELSE ScanEntries(ProcessEntry(st, entries[j], files, fault, layer),
                   entries, j + 1, files, fault, layer)

\* A failed tarReader.Next() that returns without closing the layer reader.
NextFailedLeaksReader(st, i) == [st EXCEPT !.err = "reading tar"]

\* `if err != nil { layerReader.Close(); return nil, fmt.Errorf("reading tar: %v", err) }`
NextFailed(st, i) == [st EXCEPT !.closed = @ \cup {i}, !.err = "reading tar"]

\* The loop `for i := len(layers) - 1; i >= 0; i--`.
RECURSIVE ScanLayers(_, _, _, _, _)
ScanLayers(st, layers, i, files, fault) ==
  IF i = 0 THEN st
  ELSE IF fault.kind = "uncompress" /\ fault.layer = i
    THEN [st EXCEPT !.err = "reading layer contents"]
  ELSE LET st1 == [st EXCEPT !.opened = @ \cup {i}] IN
    IF fault.kind = "next" /\ fault.layer = i
      THEN NextFailed(st1, i)
    ELSE LET st2 == ScanEntries(st1, layers[i], 1, files, fault, i)
         IN ScanLayers([st2 EXCEPT !.closed = @ \cup {i}], layers, i - 1, files, fault)

ScanStart == [processed |-> {}, archive |-> <<>>, twErr |-> FALSE,
              opened |-> {}, closed |-> {}, err |-> None]

FoundFiles(files, processed) == SelectSeq(files, LAMBDA f : f.from \in processed)

\* The outcome of one call: err, the returned file locations, whether the
\* destination file was created and what it holds, the readers opened/closed.
Extract(layers, files, fault) ==
  IF fault.kind = "layers"
    THEN [err |-> "retrieving image layers", files |-> <<>>, created |-> FALSE,
          dest |-> <<>>, opened |-> {}, closed |-> {}]
  ELSE IF fault.kind = "create"
    THEN [err |-> "create", files |-> <<>>, created |-> FALSE,
          dest |-> <<>>, opened |-> {}, closed |-> {}]
  ELSE LET st == ScanLayers(ScanStart, layers, Len(layers), files, fault) IN
    [err |-> st.err,
     files |-> IF st.err = None THEN FoundFiles(files, st.processed) ELSE <<>>,
     created |-> TRUE, dest |-> st.archive,
     opened |-> st.opened, closed |-> st.closed]

(***************************************************************************)
(* The inputs of Extract: images of at most MaxLayers layers.  A layer     *)
(* holds the directory entry bin/ and at most one entry for bin/a and one  *)
(* for bin/b.                                                              *)
(***************************************************************************)
AOptions == {<<"absent", 0>>, <<"empty", 0>>, <<"whiteout", 0>>, <<"dir", 0>>,
             <<"dotslash", 1>>} \cup {<<"file", c>> : c \in 1 .. MaxContent}
BOptions == {"absent", "file"}

AEntry(o) ==
  CASE o[1] = "absent" -> <<>>
    [] o[1] = "empty" -> <<Entry(NameA, TypeReg, 0)>>
    [] o[1] = "whiteout" -> <<Entry(NameWhA, TypeReg, 0)>>
    [] o[1] = "dir" -> <<Entry(NameDirA, TypeDir, 0)>>
    [] o[1] = "dotslash" -> <<Entry(NameDotA, TypeReg, o[2])>>
    [] OTHER -> <<Entry(NameA, TypeReg, o[2])>>

BEntry(o) == IF o = "file" THEN <<Entry(NameB, TypeReg, 1)>> ELSE <<>>

LayerOf(ao, bo) == <<Entry(NameDirBin, TypeDir, 0)>> \o AEntry(ao) \o BEntry(bo)

LayerSet == {LayerOf(ao, bo) : ao \in AOptions, bo \in BOptions}

ImageSet == UNION {[1 .. n -> LayerSet] : n \in 0 .. MaxLayers}

FileOpsSet == UNION {[1 .. n -> {FileOp(FromA), FileOp(FromB)}] : n \in 0 .. MaxFiles}

FaultSet(layers) ==
  {NoFault, [kind |-> "layers", layer |-> 0], [kind |-> "create", layer |-> 0]}
  \cup {[kind |-> k, layer |-> i] :
          k \in {"uncompress", "next", "header", "copy"}, i \in 1 .. Len(layers)}


(***************************************************************************)
(* Names, platform tags and file names.                                    *)
(***************************************************************************)
\* strings.ReplaceAll(p, "/", "_")
ReplaceSlash(p) == [i \in 1 .. Len(p) |-> IF p[i] = "/" THEN "_" ELSE p[i]]

\* strings.SplitN(p, "/", 2)
SplitN2(p) ==
  LET at == {i \in 1 .. Len(p) : p[i] = "/"} IN
  IF at = {} THEN <<p>>
  ELSE LET i == CHOOSE x \in at : \A y \in at : x <= y
       IN <<SubSeq(p, 1, i - 1), SubSeq(p, i + 1, Len(p))>>

\* A name check that accepts every non-empty name.
SafePluginNameAny(n) == Len(n) > 0

\* regexp `^[\w-]+$`: the tokens below hold a character outside [A-Za-z0-9_-].
UnsafeTokens == {"/", ".", ".."}
SafePluginName(n) == Len(n) > 0 /\ \A i \in 1 .. Len(n) : n[i] \notin UnsafeTokens

\* A prefix check that accepts every non-empty version.
HasPrefixAny(v) == Len(v) > 0

\* strings.HasPrefix(version, "v") and k8sver.ParseSemantic(version)
HasPrefixV(v) == Len(v) > 0 /\ v[1] = "v"
ParseSemanticOk(v) == TrimPrefixV(v) \in {<<"1.0.0">>, <<"2.0.0">>}

TarballPath == "/var/run/plugins/"
\* fmt.Sprintf("%s/%s_%s.tar.gz", image.TarballPath, name, ReplaceAll(platform, "/", "_"))
TarballFile(name, platform) ==
  <<TarballPath, "/">> \o name \o <<"_">> \o ReplaceSlash(platform) \o <<".tar.gz">>

IsPrefix(a, b) == Len(a) <= Len(b) /\ SubSeq(b, 1, Len(a)) = a
IsSuffix(a, b) == Len(a) <= Len(b) /\ SubSeq(b, Len(b) - Len(a) + 1, Len(b)) = a
\* A glob of the pattern <TarballPath>/<name>*.tar.gz, without the "_"
\* between the name and the star.
GlobMatchesPrefix(name, file) ==
  LET pre == <<TarballPath, "/">> \o name
      suf == <<".tar.gz">>
  IN /\ IsPrefix(pre, file) /\ IsSuffix(suf, file)
     /\ Len(file) >= Len(pre) + Len(suf)
     /\ \A i \in Len(pre) + 1 .. Len(file) - Len(suf) : file[i] # "/"

\* filepath.Glob(fmt.Sprintf("%s/%s_*.tar.gz", image.TarballPath, name)): the
\* star matches any run of characters without a separator.
GlobMatches(name, file) ==
  LET pre == <<TarballPath, "/">> \o name \o <<"_">>
      suf == <<".tar.gz">>
  IN /\ IsPrefix(pre, file) /\ IsSuffix(suf, file)
     /\ Len(file) >= Len(pre) + Len(suf)
     /\ \A i \in Len(pre) + 1 .. Len(file) - Len(suf) : file[i] # "/"

\* fmt.Sprintf("plugins/%s.yaml", name)
PluginFile(name) == <<"plugins", "/">> \o name \o <<".yaml">>
ReadmeFile == <<"plugins", "/", "README.md">>

\* Files as maps from file name to content.
Put(m, f, c) == [x \in DOMAIN m \cup {f} |-> IF x = f THEN c ELSE m[x]]
Drop(m, S) == [x \in DOMAIN m \ S |-> m[x]]
DiffPaths(a, b) ==
  {x \in DOMAIN a \cup DOMAIN b :
     ~(x \in DOMAIN a /\ x \in DOMAIN b /\ a[x] = b[x])}

(***************************************************************************)
(* git.Repo.  The repository is its working tree, its index and the tree   *)
(* of HEAD; tipBy is the worker that made the HEAD commit (0: the seed     *)
(* commit of PrepareLocalGit).  A git fault names the call that fails:     *)
(* "stat" (Worktree/Stat/Create: nothing was changed yet), "add"           *)
(* (tree.Add: the working tree is changed), "commit" (tree.Commit: the     *)
(* change is staged as well).                                              *)
(***************************************************************************)
GitFaults == {"stat", "add", "commit"}

\* PrepareLocalGit
SeedTree == Put(<<>>, ReadmeFile, "CLI Manager")
PrepareLocalGit == [work |-> SeedTree, index |-> SeedTree, head |-> SeedTree, tipBy |-> 0]

\* A result that drops the error of the call.
GitResultNoError(r, e, n) == [repo |-> r, err |-> None, commits |-> n]

\* What a call of Repo.Upsert or Repo.Delete leaves and returns.
GitResult(r, e, n) == [repo |-> r, err |-> e, commits |-> n]

\* A commit with CommitOptions{All: true}: it takes the working tree.
CommitAll(repo, by) == [repo EXCEPT !.head = repo.work, !.index = repo.work, !.tipBy = by]

\* tree.Commit: the commit takes the whole index.
Commit(repo, by) == [repo EXCEPT !.head = repo.index, !.tipBy = by]

\* Repo.Delete without the return for a file that does not exist: it
\* stages the path and commits in every case.
RepoDeleteAlwaysCommits(repo, name, fault, by) ==
  LET fileName == PluginFile(name)
      removed == [repo EXCEPT !.work = Drop(@, {fileName})]
      staged == [removed EXCEPT !.index = Drop(@, {fileName})]
  IN IF fault = "stat" THEN GitResult(repo, "git", 0)
     ELSE IF fault = "add" THEN GitResult(removed, "git", 0)
     ELSE IF fault = "commit" THEN GitResult(staged, "git", 0)
     ELSE GitResult(Commit(staged, by), None, 1)

\* Repo.Delete
RepoDelete(repo, name, fault, by) ==
  LET fileName == PluginFile(name) IN
  IF fault = "stat" THEN GitResult(repo, "git", 0)
  ELSE IF fileName \notin DOMAIN repo.work THEN GitResult(repo, None, 0)
  ELSE LET removed == [repo EXCEPT !.work = Drop(@, {fileName})]
           staged == [removed EXCEPT !.index = Drop(@, {fileName})]
       IN IF fault = "add" THEN GitResult(removed, "git", 0)
          ELSE IF fault = "commit" THEN GitResult(staged, "git", 0)
          ELSE GitResult(Commit(staged, by), None, 1)

NilPlugin == [nil |-> TRUE]

\* Repo.Upsert that stages the manifest and leaves out tree.Commit.
RepoUpsertNoCommit(repo, name, plugin, fault, by) ==
  LET fileName == PluginFile(name) IN
  IF plugin = NilPlugin THEN GitResult(repo, None, 0)
  ELSE IF fault = "stat" THEN GitResult(repo, "git", 0)
  ELSE LET written == [repo EXCEPT !.work = Put(@, fileName, plugin)]
           staged == [written EXCEPT !.index = Put(@, fileName, plugin)]
       IN IF fault = "add" THEN GitResult(written, "git", 0)
          ELSE GitResult(staged, None, 0)

\* Repo.Upsert on a git that refuses a commit without changes and returns
\* without one when the manifest is the one in the working tree.
RepoUpsertSkipsUnchanged(repo, name, plugin, fault, by) ==
  IF /\ PluginFile(name) \in DOMAIN repo.work
     /\ repo.work[PluginFile(name)] = plugin
    THEN GitResult(repo, None, 0)
    ELSE LET staged == RepoUpsertNoCommit(repo, name, plugin, fault, by) IN
         IF staged.err # None \/ plugin = NilPlugin THEN staged
         ELSE IF fault = "commit" THEN GitResult(staged.repo, "git", 0)
         ELSE GitResult(Commit(staged.repo, by), None, 1)

\* Repo.Upsert
RepoUpsert(repo, name, plugin, fault, by) ==
  LET fileName == PluginFile(name) IN
  IF plugin = NilPlugin THEN GitResult(repo, None, 0)
  ELSE IF fault = "stat" THEN GitResult(repo, "git", 0)
  ELSE LET written == [repo EXCEPT !.work = Put(@, fileName, plugin)]
           staged == [written EXCEPT !.index = Put(@, fileName, plugin)]
       IN IF fault = "add" THEN GitResult(written, "git", 0)
          ELSE IF fault = "commit" THEN GitResult(staged, "git", 0)
          ELSE GitResult(Commit(staged, by), None, 1)

\* What one call of the Repository Publisher did, as seen from outside.
CallRecord(op, name, nilArg, before, res) ==
  [op |-> op, name |-> name, nilArg |-> nilArg, err |-> res.err,
   existed |-> PluginFile(name) \in DOMAIN before.work,
   commits |-> res.commits,
   changed |-> DiffPaths(before.head, res.repo.head),
   staged |-> DiffPaths(before.index, before.head),
   parentBy |-> before.tipBy]

(***************************************************************************)
(* The work queue of the controller (k8s workqueue semantics): a key is    *)
(* queued at most once, and a key added while it is being processed is     *)
(* queued again when its processing is done.                               *)
(***************************************************************************)
EmptyQueue == [queue |-> <<>>, dirty |-> {}, processing |-> {}]

QueueAdd(q, k) ==
  IF k \in q.dirty THEN q
  ELSE IF k \in q.processing THEN [q EXCEPT !.dirty = @ \cup {k}]
  ELSE [q EXCEPT !.dirty = @ \cup {k}, !.queue = Append(@, k)]

QueueGet(q) ==
  LET k == Head(q.queue)
  IN [q EXCEPT !.queue = Tail(@), !.processing = @ \cup {k}, !.dirty = @ \ {k}]

QueueDone(q, k) ==
  IF k \in q.dirty
    THEN [q EXCEPT !.processing = @ \ {k}, !.queue = Append(@, k)]
    ELSE [q EXCEPT !.processing = @ \ {k}]

(***************************************************************************)
(* Declared resources (v1alpha1.Plugin) and the images they name.          *)
(***************************************************************************)
PluginNames == {<<"oc">>, <<"kn">>}

VersionOk == <<"v", "1.0.0">>
VersionNoV == <<"1.0.0">>

PlatformLinux == <<"linux", "/", "amd64">>
PlatformDarwin == <<"darwin", "/", "arm64">>
PlatformNoSlash == <<"linux">>

PlatformEntry(platform, image) ==
  [platform |-> platform, image |-> image, imagePullSecret |-> "",
   files |-> <<FileOp(FromA)>>, bin |-> ""]

PluginSpec(version, platforms) == [version |-> version, platforms |-> platforms]

SpecGood == PluginSpec(VersionOk, <<PlatformEntry(PlatformLinux, "good")>>)
SpecNoV == PluginSpec(VersionNoV, <<PlatformEntry(PlatformLinux, "good")>>)
SpecSecondGone ==
  PluginSpec(VersionOk, <<PlatformEntry(PlatformLinux, "good"),
                          PlatformEntry(PlatformDarwin, "gone")>>)
SpecCorrupt == PluginSpec(VersionOk, <<PlatformEntry(PlatformLinux, "corrupt")>>)
SpecNoFile == PluginSpec(VersionOk, <<PlatformEntry(PlatformLinux, "nofile")>>)
SpecSkipFirst ==
  PluginSpec(VersionOk, <<PlatformEntry(PlatformNoSlash, "good"),
                          PlatformEntry(PlatformDarwin, "good")>>)

SpecSet == {SpecGood, SpecNoV, SpecSecondGone, SpecCorrupt, SpecNoFile, SpecSkipFirst}

\* A resource whose payload does not decode into v1alpha1.Plugin: the JSON
\* value of spec.version is an object, not a string.
VersionNotString == <<"{}">>
SpecMalformed == PluginSpec(VersionNotString, <<PlatformEntry(PlatformLinux, "good")>>)

\* A decoder that accepts every payload.
FromUnstructuredAny(spec) == TRUE

\* runtime.DefaultUnstructuredConverter.FromUnstructured(u, plugin) succeeds.
FromUnstructured(spec) == spec.version # VersionNotString

\* The key function of WithInformersQueueKeyFunc: plugin.Name, and "" for an
\* object that does not decode.
QueueKeyFunc(n, spec) == IF FromUnstructured(spec) THEN n ELSE <<>>

\* Resources whose platform names an image pull secret.
SpecSecret ==
  PluginSpec(VersionOk, <<[PlatformEntry(PlatformLinux, "good") EXCEPT
                             !.imagePullSecret = "regcred"]>>)
SpecBadSecret ==
  PluginSpec(VersionOk, <<[PlatformEntry(PlatformLinux, "good") EXCEPT
                             !.imagePullSecret = "tls"]>>)
SpecNoSecret ==
  PluginSpec(VersionOk, <<[PlatformEntry(PlatformLinux, "good") EXCEPT
                             !.imagePullSecret = "absent"]>>)

\* What image.Pull answers for an image reference, and what the layers of
\* the pulled image hold: "gone" cannot be pulled, "corrupt" has a layer
\* whose tar stream cannot be read, "nofile" lacks the requested file.
Registry(image) ==
  CASE image = "good" ->
         [pull |-> None, layers |-> <<LayerOf(<<"file", 1>>, "absent")>>, fault |-> NoFault]
    [] image = "nofile" ->
         [pull |-> None, layers |-> <<LayerOf(<<"absent", 0>>, "file")>>, fault |-> NoFault]
    [] image = "corrupt" ->
         [pull |-> None, layers |-> <<LayerOf(<<"file", 1>>, "absent")>>,
          fault |-> [kind |-> "next", layer |-> 1]]
    [] OTHER ->
         [pull |-> "pull", layers |-> <<>>, fault |-> NoFault]

\* sha256 of the bytes of a file: a value that differs when the bytes differ.
Sha256(bytes) == <<"sha256", bytes>>

(***************************************************************************)
(* Status conditions and convertKrewPlugin.                                *)
(***************************************************************************)
Condition(status, reason, message) ==
  [status |-> status, reason |-> reason, message |-> message]
NoCondition == Condition(None, None, <<>>)
Installed(name) == Condition("True", "Installed", <<"ready to be served">> \o name)

\* A status that keeps the conditions it had and gains the new one.
StatusConditionsAppended(conds, c) == Append(conds, c)

\* `plugin.Status.Conditions = []metav1.Condition{condition}`
StatusConditions(conds, c) == <<c>>

\* An updateStatusCondition that writes the condition every time.
HasConditionNever(conds, c) == FALSE

\* The loop of updateStatusCondition over plugin.Status.Conditions.
HasCondition(conds, c) ==
  \E i \in 1 .. Len(conds) :
    conds[i].reason = c.reason /\ conds[i].status = c.status /\ conds[i].message = c.message

KrewPlatform(name, p, fields, checksum, files) ==
  [uri |-> <<"download", name, ReplaceSlash(p.platform)>>,
   sha256 |-> checksum, os |-> fields[1], arch |-> fields[2],
   files |-> files, bin |-> IF p.bin = "" THEN name ELSE p.bin]

KrewPlugin(name, spec, platforms) ==
  [nil |-> FALSE, name |-> name, version |-> spec.version, platforms |-> platforms]

\* A return of convertKrewPlugin before its status update is applied: the
\* condition it reports (NoCondition for a return that reports none), the
\* manifest, ok, and the error it returns on its own.
Converted(cond, k, ok, err, cache) ==
  [cond |-> cond, k |-> k, ok |-> ok, err |-> err, cache |-> cache]
\* A failure return that hands the failure to the caller as an error too.
FailedReturnsError(reason, message, cache) ==
  Converted(Condition("False", reason, message), NilPlugin, FALSE, "materialize", cache)

\* `err := updateStatusCondition(...); if err != nil { return nil, false, err };
\* return nil, false, nil`: the condition, no manifest, and no error of its own.
Failed(reason, message, cache) ==
  Converted(Condition("False", reason, message), NilPlugin, FALSE, None, cache)

\* The transient failures of one run of convertKrewPlugin: image.Pull,
\* os.Create inside Extract, os.Open, io.Copy into the hash, the route Get,
\* the status update.
ConvertFaults == {"pull", "create", "open", "hash", "route", "status"}

RECURSIVE ConvertPlatforms(_, _, _, _, _)

\* A failed pull that leaves the platform out and goes on with the next one.
PullFailedSkipsPlatform(plugin, i, platforms, cache, fault) ==
  ConvertPlatforms(plugin, i + 1, platforms, cache, fault)

\* The branch `img, err := image.Pull(...); if err != nil { ... }`.
PullFailed(plugin, i, platforms, cache, fault) ==
  Failed("ImagePullError", <<"failed to pull the image", plugin.spec.platforms[i].image>>, cache)

\* A platform tag without "/" that fails the whole resource.
SkipPlatformFails(plugin, i, platforms, cache, fault) ==
  Failed("InvalidField", <<"invalid platform">> \o plugin.spec.platforms[i].platform, cache)

\* The branch `if len(fields) < 2 { continue }`.
SkipPlatform(plugin, i, platforms, cache, fault) ==
  ConvertPlatforms(plugin, i + 1, platforms, cache, fault)

\* An extraction without files that leaves the platform out and goes on.
NoFilesFoundSkipsPlatform(plugin, i, platforms, cache, fault) ==
  ConvertPlatforms(plugin, i + 1, platforms, cache, fault)

\* The branch `if len(files) == 0 { ... }`.
NoFilesFound(plugin, i, platforms, cache, fault) ==
  Failed("BinaryNotFound", <<"failed to find the binary from image">>, cache)

\* The Secrets of the cluster, by name: client.CoreV1().Secrets(ns).Get.
SecretTypeDockercfg == "kubernetes.io/dockercfg"
SecretTypeDockerConfigJson == "kubernetes.io/dockerconfigjson"
Secrets(name) ==
  CASE name = "regcred" -> [found |-> TRUE, type |-> SecretTypeDockercfg]
    [] name = "tls" -> [found |-> TRUE, type |-> "kubernetes.io/tls"]
    [] OTHER -> [found |-> FALSE, type |-> ""]

\* The block `if len(p.ImagePullSecret) > 0 { ... }`: the reason it fails
\* with (None when it does not) and the message of the condition.
ImagePullSecretCheck(p) ==
  IF p.imagePullSecret = "" THEN [reason |-> None, message |-> <<>>]
  ELSE LET imagePullSecret == Secrets(p.imagePullSecret) IN
    IF ~imagePullSecret.found
      THEN [reason |-> "InvalidField",
            message |-> <<"secret", p.imagePullSecret, "is not found">>]
    ELSE IF imagePullSecret.type \notin {SecretTypeDockercfg, SecretTypeDockerConfigJson}
      THEN [reason |-> "InvalidSecretType",
            message |-> <<"image pull secret type", imagePullSecret.type, "is not supported">>]
    ELSE [reason |-> None, message |-> <<>>]

\* The loop `for _, p := range plugin.Spec.Platforms`.
ConvertPlatforms(plugin, i, platforms, cache, fault) ==
  IF i > Len(plugin.spec.platforms)
    THEN Converted(Installed(plugin.name),
                   KrewPlugin(plugin.name, plugin.spec, platforms), TRUE, None, cache)
  ELSE LET p == plugin.spec.platforms[i]
           fields == SplitN2(p.platform)
           secret == ImagePullSecretCheck(p)
       IN
    IF Len(fields) < 2 THEN SkipPlatform(plugin, i, platforms, cache, fault)
    ELSE IF secret.reason # None THEN Failed(secret.reason, secret.message, cache)
    ELSE LET reg == Registry(p.image) IN
    IF reg.pull # None \/ fault = "pull"
      THEN PullFailed(plugin, i, platforms, cache, fault)
    ELSE LET dest == TarballFile(plugin.name, p.platform)
             ex == Extract(reg.layers, p.files,
                           IF fault = "create" THEN [kind |-> "create", layer |-> 0]
                           ELSE reg.fault)
             cache1 == IF ex.created THEN Put(cache, dest, ex.dest) ELSE cache
         IN
      IF ex.err # None
        THEN Failed("ExtractFromImageError", <<"failed to extract the binary", ex.err>>, cache1)
      ELSE IF Len(ex.files) = 0
        THEN NoFilesFound(plugin, i, platforms, cache1, fault)
      ELSE IF fault = "open"
        THEN Failed("BinaryNotFound", <<"failed to open the extracted binary">>, cache1)
      ELSE IF fault = "hash"
        THEN Failed("Sha256ChecksumError", <<"could not calculate sha256 checksum">>, cache1)
      ELSE IF fault = "route"
        THEN Converted(NoCondition, NilPlugin, FALSE, "route", cache1)
      ELSE ConvertPlatforms(plugin, i + 1,
             Append(platforms, KrewPlatform(plugin.name, p, fields,
                                            Sha256(cache1[dest]), ex.files)),
             cache1, fault)

\* convertKrewPlugin up to the status update of the return it takes.
ConvertKrewPlugin(plugin, cache, fault) ==
  IF ~SafePluginName(plugin.name)
    THEN Failed("InvalidField", <<"invalid plugin name">> \o plugin.name, cache)
  ELSE IF ~HasPrefixV(plugin.spec.version)
    THEN Failed("InvalidField", <<"invalid version, should start with v">> \o plugin.spec.version,
                cache)
  ELSE IF ~ParseSemanticOk(plugin.spec.version)
    THEN Failed("InvalidField", <<"invalid version, should be in v0.0.0 format">> \o plugin.spec.version,
                cache)
  ELSE ConvertPlatforms(plugin, 1, <<>>, cache, fault)

\* DeletePlugin that removes the tarballs and leaves the repository alone.
DeletePluginKeepsManifest(name, repo, cache, fault, by) ==
  [git |-> GitResult(repo, None, 0),
   cache |-> Drop(cache, {f \in DOMAIN cache : GlobMatches(name, f)})]

\* DeletePlugin: repo.Delete, then the removal of the cached tarballs.
DeletePlugin(name, repo, cache, fault, by) ==
  LET res == RepoDelete(repo, name, fault, by) IN
  [git |-> res,
   cache |-> IF res.err # None THEN cache
             ELSE Drop(cache, {f \in DOMAIN cache : GlobMatches(name, f)})]

(***************************************************************************)
(* State.                                                                  *)
(***************************************************************************)
VARIABLES
  exImg,      \* Extract: the layers of the image handle
  exFiles,    \* Extract: platform.Files
  exFault,    \* Extract: the failing call of this run
  exDone,     \* Extract has returned
  exOut,      \* Extract: what it returned and what it left behind
  gitCall,    \* Repo: the last direct call of Upsert / Delete and what it did
  store,      \* the declared resources, by name (the resource store)
  pending,    \* names with a change event the informer has not handed over yet
  wq,         \* the work queue of the controller
  backoff,    \* keys waiting for their rate-limited re-add
  wk,         \* the sync workers: position in sync and its local variables
  repo,       \* the git repository at GitRepoPath
  cache,      \* the files under TarballPath
  faults,     \* transient failures injected so far
  adminOps,   \* changes made by the administrator so far
  ctx,        \* the root context of RunCLIManager
  served,     \* the last response of the HTTP server
  boot,       \* how far RunCLIManager has come in starting the process
  tool,       \* the CLITool resource of the v1 server and the binary in its image
  requests    \* the requests the v1 server is answering, by client

exVars == <<exImg, exFiles, exFault, exDone, exOut, gitCall>>
ctlVars == <<store, pending, wq, backoff, wk, repo, cache, faults, adminOps>>
toolVars == <<tool, requests>>
envVars == <<ctx, served, boot, tool, requests>>
vars == <<exImg, exFiles, exFault, exDone, exOut, gitCall,
          store, pending, wq, backoff, wk, repo, cache, faults, adminOps,
          ctx, served, boot, tool, requests>>

\* cliSyncController.Run(ctx, 2)
TwoWorkers == 1 + 1

\* cliSyncController.Run(ctx, 1)
Workers == 1

MaxAdminOps == 2    \* changes the administrator makes
MaxFaults == 1      \* transient failures of the environment

Absent == [present |-> FALSE, spec |-> PluginSpec(<<>>, <<>>), conds |-> <<>>]
NoPlugin == [name |-> <<>>, spec |-> PluginSpec(<<>>, <<>>), conds |-> <<>>]
Idle == [pc |-> "idle", key |-> <<>>, plugin |-> NoPlugin, stale |-> FALSE,
         k |-> NilPlugin, ok |-> FALSE, err |-> None, wrote |-> NoCondition,
         calls |-> <<>>]

NoCall == [op |-> None]

\* The root context before it is canceled; `during` is the set of workers
\* that were inside convertKrewPlugin when the cancellation came.
Background == [canceled |-> FALSE, during |-> {}]

\* What was at GitRepoPath before the process started: nothing.
NoRepository == [work |-> <<>>, index |-> <<>>, head |-> <<>>, tipBy |-> 0]

\* RunCLIManager after `go cliSyncController.Run(ctx, 1)`: the repository
\* was prepared, the informers and the HTTP server were started.
Running == [pc |-> "running", commits |-> 1, branch |-> TRUE, found |-> NoRepository]

\* The clients of the v1 server that send requests at the same time.
ToolClients == {1, 2}

NoDigest == [prefix |-> None, hex |-> <<>>]

\* A client that has sent no request.
IdleRequest ==
  [pc |-> "idle", kind |-> None, platform |-> <<>>, n |-> 0,
   seen |-> <<>>, tee |-> FALSE, toolBuf |-> <<>>, digest |-> NoDigest,
   tries |-> 0, got |-> [rv |-> 0, digests |-> <<>>], wrote |-> FALSE,
   body |-> <<>>, result |-> NoDigest, err |-> None]

\* A CLITool without recorded digests whose image holds no binary.
NoTool == [content |-> <<>>, digests |-> <<>>, rv |-> 0]

\* Nothing was served yet.
NoResponse == [handler |-> None, status |-> 0, tree |-> <<>>, file |-> <<>>,
               headers |-> {}]

ExtractNotRun == [err |-> None, files |-> <<>>, created |-> FALSE, dest |-> <<>>,
                  opened |-> {}, closed |-> {}]

InitController ==
  /\ store = [n \in PluginNames |-> Absent]
  /\ pending = {}
  /\ wq = EmptyQueue
  /\ backoff = {}
  /\ wk = [w \in 1 .. Workers |-> Idle]
  /\ repo = PrepareLocalGit
  /\ cache = <<>>
  /\ faults = 0
  /\ adminOps = 0
  /\ ctx = Background
  /\ served = NoResponse
  /\ boot = Running
  /\ tool = NoTool
  /\ requests = [c \in ToolClients |-> IdleRequest]

(***************************************************************************)
(* Extract on its own: every image, file list and failing call.            *)
(***************************************************************************)
InitExtract ==
  /\ exImg \in ImageSet
  /\ exFiles \in FileOpsSet
  /\ exFault \in FaultSet(exImg)
  /\ exDone = FALSE
  /\ exOut = ExtractNotRun
  /\ gitCall = NoCall
  /\ InitController

RunExtract ==
  /\ ~exDone
  /\ exOut' = Extract(exImg, exFiles, exFault)
  /\ exDone' = TRUE
  /\ UNCHANGED <<exImg, exFiles, exFault, gitCall>>
  /\ UNCHANGED ctlVars
  /\ UNCHANGED envVars

NextExtract == RunExtract

SpecExtract == InitExtract /\ [][NextExtract]_vars

(***************************************************************************)
(* The administrator, the informer and the queue.                          *)
(***************************************************************************)
\* A write to a resource makes the copy a running sync fetched stale: its
\* status update is then answered with a conflict (or not found).
MarkStale(w, n) ==
  [x \in DOMAIN w |->
     IF w[x].pc \in {"convert", "upsert"} /\ w[x].key = n
       THEN [w[x] EXCEPT !.stale = TRUE] ELSE w[x]]

AdminApply(n, s) ==
  /\ adminOps < MaxAdminOps
  /\ ~store[n].present \/ store[n].spec # s
  /\ store' = [store EXCEPT ![n] = [present |-> TRUE, spec |-> s, conds |-> store[n].conds]]
  /\ pending' = pending \cup {QueueKeyFunc(n, s)}
  /\ wk' = MarkStale(wk, n)
  /\ adminOps' = adminOps + 1
  /\ UNCHANGED <<wq, backoff, repo, cache, faults>>
  /\ UNCHANGED exVars
  /\ UNCHANGED envVars

AdminDelete(n) ==
  /\ adminOps < MaxAdminOps
  /\ store[n].present
  /\ store' = [store EXCEPT ![n] = Absent]
  /\ pending' = pending \cup {QueueKeyFunc(n, store[n].spec)}
  /\ wk' = MarkStale(wk, n)
  /\ adminOps' = adminOps + 1
  /\ UNCHANGED <<wq, backoff, repo, cache, faults>>
  /\ UNCHANGED exVars
  /\ UNCHANGED envVars

\* The informer's event handler: queue.Add(QueueKeyFunc(obj)).
InformerDeliver(n) ==
  /\ n \in pending
  /\ pending' = pending \ {n}
  /\ wq' = QueueAdd(wq, n)
  /\ UNCHANGED <<store, backoff, wk, repo, cache, faults, adminOps>>
  /\ UNCHANGED exVars
  /\ UNCHANGED envVars

\* The delayed Add of queue.AddRateLimited(key).
BackoffFire(n) ==
  /\ n \in backoff
  /\ backoff' = backoff \ {n}
  /\ wq' = QueueAdd(wq, n)
  /\ UNCHANGED <<store, pending, wk, repo, cache, faults, adminOps>>
  /\ UNCHANGED exVars
  /\ UNCHANGED envVars

(***************************************************************************)
(* Controller.sync, in the steps at which other tasks can run in between:  *)
(* SyncBegin (the Get of the queued name and DeletePlugin), SyncConvert    *)
(* (convertKrewPlugin with its status update), SyncUpsert (repo.Upsert)    *)
(* and SyncReturn (the queue's handling of what sync returned).            *)
(***************************************************************************)
UseFault(fault) ==
  IF fault = None THEN faults' = faults
  ELSE faults < MaxFaults /\ faults' = faults + 1

FetchedPlugin(name) ==
  [name |-> name, spec |-> store[name].spec, conds |-> store[name].conds]

SyncBegin(w) ==
  /\ wk[w].pc = "idle"
  /\ Len(wq.queue) > 0
  /\ LET key == Head(wq.queue) IN
     \E fault \in {None, "get"} \cup GitFaults :
       /\ fault \in {"add", "commit"} => PluginFile(key) \in DOMAIN repo.work
       /\ UseFault(fault)
       /\ wq' = QueueGet(wq)
       /\ key = <<>> => fault = None
       /\ (key # <<>> /\ store[key].present /\ ~FromUnstructured(store[key].spec)) =>
            fault \in {None, "get"}
       /\ IF key = <<>>
            \* Get with an empty name: "name is required"
            THEN /\ wk' = [wk EXCEPT ![w] =
                             [Idle EXCEPT !.pc = "done", !.key = key, !.err = "name"]]
                 /\ UNCHANGED <<repo, cache>>
          ELSE IF fault = "get"
            THEN /\ wk' = [wk EXCEPT ![w] =
                             [Idle EXCEPT !.pc = "done", !.key = key, !.err = "get"]]
                 /\ UNCHANGED <<repo, cache>>
          ELSE IF store[key].present /\ ~FromUnstructured(store[key].spec)
            \* `ignore unexpected types`: return nil
            THEN /\ wk' = [wk EXCEPT ![w] = [Idle EXCEPT !.pc = "done", !.key = key]]
                 /\ UNCHANGED <<repo, cache>>
            ELSE LET d == DeletePlugin(key, repo, cache, fault, w)
                     call == CallRecord("delete", key, FALSE, repo, d.git)
                 IN /\ repo' = d.git.repo
                    /\ cache' = d.cache
                    /\ wk' = [wk EXCEPT ![w] =
                                IF store[key].present
                                  THEN [Idle EXCEPT !.pc = "convert", !.key = key,
                                                    !.plugin = FetchedPlugin(key),
                                                    !.calls = <<call>>]
                                  ELSE [Idle EXCEPT !.pc = "done", !.key = key,
                                                    !.err = d.git.err,
                                                    !.calls = <<call>>]]
  /\ UNCHANGED <<store, pending, backoff, adminOps>>
  /\ UNCHANGED exVars
  /\ UNCHANGED envVars

SyncConvert(w, kinds) ==
  /\ wk[w].pc = "convert"
  /\ \E fault \in {None} \cup kinds :
       \E out \in {ConvertKrewPlugin(wk[w].plugin, cache, fault)} :
       LET me == wk[w]
           \* updateStatusCondition: no update for NoCondition or a condition
           \* the fetched resource carries already
           skip == out.cond = NoCondition \/ HasCondition(me.plugin.conds, out.cond)
           updErr == ~skip /\ (me.stale \/ fault = "status")
           writes == ~skip /\ ~updErr
           err == IF out.err # None THEN out.err
                  ELSE IF updErr THEN "status" ELSE None
           ok == out.ok /\ err = None
       IN /\ fault = "status" => ~skip
          /\ fault \in ConvertFaults \ {"status"} =>
               out # ConvertKrewPlugin(me.plugin, cache, None)
          /\ UseFault(fault)
          /\ cache' = out.cache
          /\ store' = IF writes THEN [store EXCEPT ![me.key].conds =
                                          StatusConditions(me.plugin.conds, out.cond)]
                      ELSE store
          /\ pending' = IF writes THEN pending \cup {me.key} ELSE pending
          /\ wk' = [wk EXCEPT ![w] =
                      [me EXCEPT !.pc = IF ok THEN "upsert" ELSE "done",
                                 !.k = IF ok THEN out.k ELSE NilPlugin,
                                 !.ok = ok, !.err = err,
                                 !.wrote = IF writes THEN out.cond ELSE NoCondition]]
  /\ UNCHANGED <<wq, backoff, repo, adminOps>>
  /\ UNCHANGED exVars
  /\ UNCHANGED envVars

SyncUpsert(w) ==
  /\ wk[w].pc = "upsert"
  /\ \E fault \in {None} \cup GitFaults :
       LET me == wk[w]
           res == RepoUpsert(repo, me.plugin.name, me.k, fault, w)
           call == CallRecord("upsert", me.plugin.name, me.k = NilPlugin, repo, res)
       IN /\ UseFault(fault)
          /\ repo' = res.repo
          /\ wk' = [wk EXCEPT ![w] = [me EXCEPT !.pc = "done", !.err = res.err,
                                                !.calls = Append(@, call)]]
  /\ UNCHANGED <<store, pending, wq, backoff, cache, adminOps>>
  /\ UNCHANGED exVars
  /\ UNCHANGED envVars

\* The queue after sync returned: AddRateLimited on an error, then Done.
SyncReturn(w) ==
  /\ wk[w].pc = "done"
  /\ backoff' = IF wk[w].err # None THEN backoff \cup {wk[w].key} ELSE backoff
  /\ wq' = QueueDone(wq, wk[w].key)
  /\ wk' = [wk EXCEPT ![w] = Idle]
  /\ UNCHANGED <<store, pending, repo, cache, faults, adminOps>>
  /\ UNCHANGED exVars
  /\ UNCHANGED envVars

Init ==
  /\ InitController
  /\ exImg = <<>>
  /\ exFiles = <<FileOp(FromA)>>
  /\ exFault = NoFault
  /\ exDone = TRUE
  /\ exOut = ExtractNotRun
  /\ gitCall = NoCall

Next ==
  \/ \E n \in PluginNames, s \in SpecSet : AdminApply(n, s)
  \/ \E n \in PluginNames : AdminDelete(n)
  \/ \E n \in PluginNames : InformerDeliver(n)
  \/ \E n \in PluginNames : BackoffFire(n)
  \/ \E w \in 1 .. Workers : SyncBegin(w)
  \/ \E w \in 1 .. Workers : SyncConvert(w, ConvertFaults)
  \/ \E w \in 1 .. Workers : SyncUpsert(w)
  \/ \E w \in 1 .. Workers : SyncReturn(w)

Spec == Init /\ [][Next]_vars

(***************************************************************************)
(* What a declared resource materializes to.                               *)
(***************************************************************************)
\* The platform entries whose tag has the form os/arch.
Slashed(spec) ==
  {i \in 1 .. Len(spec.platforms) : Len(SplitN2(spec.platforms[i].platform)) >= 2}

\* The image of the entry can be pulled and holds the requested file.
PlatformMaterializes(p) ==
  LET reg == Registry(p.image)
      ex == Extract(reg.layers, p.files, reg.fault)
  IN /\ ImagePullSecretCheck(p).reason = None
     /\ reg.pull = None /\ ex.err = None /\ Len(ex.files) > 0

ValidFields(name, spec) ==
  SafePluginName(name) /\ HasPrefixV(spec.version) /\ ParseSemanticOk(spec.version)

Materializes(name, spec) ==
  /\ ValidFields(name, spec)
  /\ \A i \in Slashed(spec) : PlatformMaterializes(spec.platforms[i])

\* The manifest convertKrewPlugin builds for the resource when nothing fails.
Manifest(name, spec) ==
  ConvertKrewPlugin([name |-> name, spec |-> spec, conds |-> <<>>], <<>>, None).k

(***************************************************************************)
(* git.Repo on its own: any sequence of Upsert and Delete calls, each of   *)
(* which may fail at one of its steps.                                     *)
(***************************************************************************)
UpsertArgs(n) == {NilPlugin} \cup {Manifest(n, s) : s \in {x \in SpecSet : Materializes(n, x)}}

CallUpsert(n, plugin, fault) ==
  LET res == RepoUpsert(repo, n, plugin, fault, 1) IN
  /\ repo' = res.repo
  /\ gitCall' = CallRecord("upsert", n, plugin = NilPlugin, repo, res)
  /\ UNCHANGED <<exImg, exFiles, exFault, exDone, exOut>>
  /\ UNCHANGED <<store, pending, wq, backoff, wk, cache, faults, adminOps>>
  /\ UNCHANGED envVars

CallDelete(n, fault) ==
  LET res == RepoDelete(repo, n, fault, 1) IN
  /\ repo' = res.repo
  /\ gitCall' = CallRecord("delete", n, FALSE, repo, res)
  /\ UNCHANGED <<exImg, exFiles, exFault, exDone, exOut>>
  /\ UNCHANGED <<store, pending, wq, backoff, wk, cache, faults, adminOps>>
  /\ UNCHANGED envVars

NextRepo ==
  \/ \E n \in PluginNames, fault \in {None} \cup GitFaults :
       \E plugin \in UpsertArgs(n) : CallUpsert(n, plugin, fault)
  \/ \E n \in PluginNames, fault \in {None} \cup GitFaults : CallDelete(n, fault)

SpecRepo == Init /\ [][NextRepo]_vars

(***************************************************************************)
(* The controller under fair scheduling, for resources whose images        *)
(* materialize: pull, extraction, open and checksum of an image that can   *)
(* be pulled do not fail; the API server, the route and git still may.     *)
(***************************************************************************)
MaterializeFaults == {"pull", "create", "open", "hash"}

LiveNext ==
  \/ \E n \in PluginNames, s \in SpecSet : AdminApply(n, s)
  \/ \E n \in PluginNames : AdminDelete(n)
  \/ \E n \in PluginNames : InformerDeliver(n)
  \/ \E n \in PluginNames : BackoffFire(n)
  \/ \E w \in 1 .. Workers : SyncBegin(w)
  \/ \E w \in 1 .. Workers : SyncConvert(w, ConvertFaults \ MaterializeFaults)
  \/ \E w \in 1 .. Workers : SyncUpsert(w)
  \/ \E w \in 1 .. Workers : SyncReturn(w)

\* A step of the worker goroutine of Run(ctx, 1) other than SyncConvert.
WorkerStep ==
  \E w \in 1 .. Workers : SyncBegin(w) \/ SyncUpsert(w) \/ SyncReturn(w)

\* The informer hands over every event, the rate limiter's timer fires, and
\* the worker goroutine keeps running.  SyncConvert is enabled exactly when
\* the worker is at "convert" and every step of it leaves "convert", so weak
\* fairness of SyncConvert is: the worker is not at "convert" forever.
Fairness ==
  /\ WF_vars(\E n \in PluginNames : InformerDeliver(n))
  /\ WF_vars(\E n \in PluginNames : BackoffFire(n))
  /\ WF_vars(WorkerStep)
  /\ \A w \in 1 .. Workers : []<>(wk[w].pc # "convert")

LiveSpec == Init /\ [][LiveNext]_vars /\ Fairness

(***************************************************************************)
(* The HTTP server of PrepareGitServer next to the controller, and the     *)
(* cancellation of the root context.  The two git handlers run the native  *)
(* `git upload-pack` on GitRepoPath, which reads the refs and the objects  *)
(* they reach; the download handler opens a file under TarballPath.        *)
(***************************************************************************)
UploadPackServiceName == "git-upload-pack"

Header(name, value) == [name |-> name, value |-> value]

\* The headers the handlers set: those of the two git answers, none for the
\* bare WriteHeader(405) of the download handler, and those of http.Error.
ResponseHeaders(handler, status) ==
  IF status = 200 /\ handler = "refs"
    THEN {Header("Content-Type", <<"application/x-git-upload-pack-advertisement">>),
          Header("Cache-Control", <<"no-cache">>)}
  ELSE IF status = 200 /\ handler = "pack"
    THEN {Header("Content-Type", <<"application/x-git-upload-pack-result">>),
          Header("Cache-Control", <<"no-cache">>)}
  ELSE IF status = 405 /\ handler = "download" THEN {}
  ELSE {Header("Content-Type", <<"text/plain; charset=utf-8">>),
        Header("X-Content-Type-Options", <<"nosniff">>)}

Response(handler, status, tree, file) ==
  [handler |-> handler, status |-> status, tree |-> tree, file |-> file,
   headers |-> ResponseHeaders(handler, status)]

\* The headers of a download that announces a gzip content encoding as well.
DownloadHeadersGzip(fileName) ==
  {Header("Content-Type", <<"application/octet-stream">>),
   Header("Content-Encoding", <<"gzip">>),
   Header("Content-Disposition", <<"attachment; filename=">> \o fileName),
   Header("Content-Transfer-Encoding", <<"binary">>)}

\* The three w.Header().Set(...) of HandleDownloadPlugin.
DownloadHeaders(fileName) ==
  {Header("Content-Type", <<"application/octet-stream">>),
   Header("Content-Disposition", <<"attachment; filename=">> \o fileName),
   Header("Content-Transfer-Encoding", <<"binary">>)}

\* `git upload-pack --stateless-rpc [--advertise-refs] GitRepoPath` that
\* answers from the files of the working tree.
UploadPackWorktree(r) == r.work

\* `git upload-pack --stateless-rpc [--advertise-refs] GitRepoPath`: the
\* tree of the commit HEAD names.
UploadPack(r) == r.head

HandleGitAdversitement(method, service) ==
  IF method # "GET" THEN Response("refs", 405, <<>>, <<>>)
  ELSE IF service = None THEN Response("refs", 400, <<>>, <<>>)
  ELSE IF service # UploadPackServiceName THEN Response("refs", 403, <<>>, <<>>)
  ELSE Response("refs", 200, UploadPack(repo), <<>>)

HandleGitUploadPack(method) ==
  IF method # "POST" THEN Response("pack", 405, <<>>, <<>>)
  ELSE Response("pack", 200, UploadPack(repo), <<>>)

\* For a name and a platform without "." or ".." elements filepath.Clean
\* only drops the doubled separator, and the file opened is the one
\* convertKrewPlugin wrote as destinationFileName.
HandleDownloadPlugin(method, name, platform) ==
  LET fileName == name \o <<"_">> \o platform \o <<".tar.gz">>
      filePath == <<TarballPath, "/">> \o fileName IN
  IF method # "GET" THEN Response("download", 405, <<>>, <<>>)
  ELSE IF Len(name) = 0 \/ Len(platform) = 0 THEN Response("download", 400, <<>>, <<>>)
  ELSE IF filePath \notin DOMAIN cache THEN Response("download", 404, <<>>, <<>>)
  ELSE [Response("download", 200, <<>>, cache[filePath])
          EXCEPT !.headers = DownloadHeaders(fileName)]

Methods == {"GET", "POST"}
Services == {None, UploadPackServiceName, "git-receive-pack"}
DownloadPlatforms == {<<>>, ReplaceSlash(PlatformLinux), ReplaceSlash(PlatformDarwin)}

Serve(response) ==
  /\ served' = response
  /\ served # response
  /\ UNCHANGED <<ctx, boot>>
  /\ UNCHANGED toolVars
  /\ UNCHANGED ctlVars
  /\ UNCHANGED exVars

ServeAdvertisement == \E m \in Methods, s \in Services : Serve(HandleGitAdversitement(m, s))
ServeUploadPack == \E m \in Methods : Serve(HandleGitUploadPack(m))
ServeDownload ==
  \E m \in Methods, n \in PluginNames, p \in DownloadPlatforms :
    Serve(HandleDownloadPlugin(m, n, p))

\* The root context is canceled (process shutdown).  Nothing in sync after
\* the Get reads it: convertKrewPlugin works on context.Background(), and
\* image.Pull, image.Extract and Repo.Upsert take no context.
Cancel ==
  /\ ~ctx.canceled
  /\ ctx' = [canceled |-> TRUE,
             during |-> {w \in DOMAIN wk : wk[w].pc = "convert"}]
  /\ UNCHANGED <<served, boot>>
  /\ UNCHANGED toolVars
  /\ UNCHANGED ctlVars
  /\ UNCHANGED exVars

\* The resources declared while the server is observed.
ServeSpecs == {SpecGood, SpecNoFile}

\* After the cancellation the informers are stopped and the queue is shut
\* down: no event is handed over and no sync starts; a sync that is running
\* goes on, and so does the HTTP server, until the process exits.
ServeNext ==
  \/ \E n \in PluginNames, s \in ServeSpecs : AdminApply(n, s)
  \/ \E n \in PluginNames : AdminDelete(n)
  \/ ~ctx.canceled /\ \E n \in PluginNames : InformerDeliver(n)
  \/ ~ctx.canceled /\ \E n \in PluginNames : BackoffFire(n)
  \/ ~ctx.canceled /\ \E w \in 1 .. Workers : SyncBegin(w)
  \/ \E w \in 1 .. Workers : SyncConvert(w, ConvertFaults)
  \/ \E w \in 1 .. Workers : SyncUpsert(w)
  \/ \E w \in 1 .. Workers : SyncReturn(w)
  \/ ServeAdvertisement
  \/ ServeUploadPack
  \/ ServeDownload
  \/ Cancel

SpecServe == Init /\ [][ServeNext]_vars

(***************************************************************************)
(* The controller over resources of which one has a name the API server    *)
(* accepts (a DNS subdomain) and the pattern of convertKrewPlugin rejects, *)
(* and over platforms that name an image pull secret.                      *)
(***************************************************************************)
DottedName == <<"oc", ".", "v1">>
ResourceNames == {<<"oc">>, DottedName}
SecretSpecs == {SpecGood, SpecNoFile, SpecSecret, SpecBadSecret, SpecNoSecret, SpecMalformed}
QueueKeys == ResourceNames \cup {<<>>}

InitNames ==
  /\ store = [n \in ResourceNames |-> Absent]
  /\ pending = {}
  /\ wq = EmptyQueue
  /\ backoff = {}
  /\ wk = [w \in 1 .. Workers |-> Idle]
  /\ repo = PrepareLocalGit
  /\ cache = <<>>
  /\ faults = 0
  /\ adminOps = 0
  /\ ctx = Background
  /\ served = NoResponse
  /\ boot = Running
  /\ tool = NoTool
  /\ requests = [c \in ToolClients |-> IdleRequest]
  /\ exImg = <<>>
  /\ exFiles = <<FileOp(FromA)>>
  /\ exFault = NoFault
  /\ exDone = TRUE
  /\ exOut = ExtractNotRun
  /\ gitCall = NoCall

NextNames ==
  \/ \E n \in ResourceNames, s \in SecretSpecs : AdminApply(n, s)
  \/ \E n \in ResourceNames : AdminDelete(n)
  \/ \E n \in QueueKeys : InformerDeliver(n)
  \/ \E n \in QueueKeys : BackoffFire(n)
  \/ \E w \in 1 .. Workers : SyncBegin(w)
  \/ \E w \in 1 .. Workers : SyncConvert(w, ConvertFaults)
  \/ \E w \in 1 .. Workers : SyncUpsert(w)
  \/ \E w \in 1 .. Workers : SyncReturn(w)

SpecNames == InitNames /\ [][NextNames]_vars

(***************************************************************************)
(* The start of the process in RunCLIManager: PrepareLocalGit, the         *)
(* informers, the HTTP server, the controller, in this order.  The path    *)
(* may hold the repository of an earlier run of the process.               *)
(***************************************************************************)
LeftoverManifest == <<"apiVersion: krew.googlecontainertools.github.com/v1alpha2">>

\* The repository an earlier run left at GitRepoPath: the seed commit and a
\* commit with the manifest of a plugin.
LeftoverRepository ==
  [work |-> Put(SeedTree, PluginFile(<<"kn">>), LeftoverManifest),
   index |-> Put(SeedTree, PluginFile(<<"kn">>), LeftoverManifest),
   head |-> Put(SeedTree, PluginFile(<<"kn">>), LeftoverManifest),
   tipBy |-> 0]

\* The calls of PrepareLocalGit that can fail: PlainInit, MkdirAll, the
\* Create/Write/Close of the marker file, AddGlob, Commit, CreateBranch.
PrepareFaults == {"init", "mkdir", "write", "add", "commit", "branch"}

\* PrepareLocalGit with the failing call `fault`: what is at GitRepoPath
\* when it returns, the commits and the branch the repository has, and the
\* error returned.  os.RemoveAll has removed what was there in every case.
PrepareLocalGitRun(fault) ==
  LET marker == Put(<<>>, ReadmeFile, "")
      at(work, index, head, commits, err) ==
        [repo |-> [work |-> work, index |-> index, head |-> head, tipBy |-> 0],
         commits |-> commits, branch |-> commits > 0, err |-> err]
  IN IF fault \in {"init", "mkdir"} THEN at(<<>>, <<>>, <<>>, 0, fault)
     ELSE IF fault = "write" THEN at(marker, <<>>, <<>>, 0, fault)
     ELSE IF fault = "add" THEN at(SeedTree, <<>>, <<>>, 0, fault)
     ELSE IF fault = "commit" THEN at(SeedTree, SeedTree, <<>>, 0, fault)
     ELSE IF fault = "branch" THEN at(SeedTree, SeedTree, SeedTree, 1, fault)
     ELSE [repo |-> PrepareLocalGit, commits |-> 1, branch |-> TRUE, err |-> None]

\* A RunCLIManager that goes on after a failed PrepareLocalGit.
AfterPrepareIgnoresError(err) == "prepared"

\* `repo, err := git.PrepareLocalGit(); if err != nil { return err }`
AfterPrepare(err) == IF err = None THEN "prepared" ELSE "failed"

BootPrepare ==
  /\ boot.pc = "start"
  /\ \E fault \in {None} \cup PrepareFaults :
       LET out == PrepareLocalGitRun(fault) IN
       /\ repo' = out.repo
       /\ boot' = [boot EXCEPT !.pc = AfterPrepare(out.err),
                               !.commits = out.commits, !.branch = out.branch]
  /\ UNCHANGED <<store, pending, wq, backoff, wk, cache, faults, adminOps>>
  /\ UNCHANGED <<ctx, served>>
  /\ UNCHANGED toolVars
  /\ UNCHANGED exVars

BootStep(from, to) ==
  /\ boot.pc = from
  /\ boot' = [boot EXCEPT !.pc = to]
  /\ UNCHANGED <<ctx, served>>
  /\ UNCHANGED toolVars
  /\ UNCHANGED ctlVars
  /\ UNCHANGED exVars

\* `informers.Start(ctx.Done())`
InformersStart == BootStep("prepared", "informers")
\* `go func() { server.ListenAndServe() }()`
ListenAndServe == BootStep("informers", "listening")
\* `go cliSyncController.Run(ctx, 1)`
ControllerRun == BootStep("listening", "running")

BootNames == {<<"oc">>}

InitBoot ==
  /\ store = [n \in PluginNames |-> Absent]
  /\ pending = {}
  /\ wq = EmptyQueue
  /\ backoff = {}
  /\ wk = [w \in 1 .. Workers |-> Idle]
  /\ repo \in {NoRepository, LeftoverRepository}
  /\ cache = <<>>
  /\ faults = 0
  /\ adminOps = 0
  /\ ctx = Background
  /\ served = NoResponse
  /\ tool = NoTool
  /\ requests = [c \in ToolClients |-> IdleRequest]
  /\ boot = [pc |-> "start", commits |-> IF repo = NoRepository THEN 0 ELSE 2,
             branch |-> repo # NoRepository, found |-> repo]
  /\ exImg = <<>>
  /\ exFiles = <<FileOp(FromA)>>
  /\ exFault = NoFault
  /\ exDone = TRUE
  /\ exOut = ExtractNotRun
  /\ gitCall = NoCall

BootNext ==
  \/ BootPrepare
  \/ InformersStart
  \/ ListenAndServe
  \/ ControllerRun
  \/ \E n \in BootNames, s \in ServeSpecs : AdminApply(n, s)
  \/ \E n \in BootNames : AdminDelete(n)
  \/ boot.pc \in {"informers", "listening", "running"} /\ \E n \in BootNames : InformerDeliver(n)
  \/ boot.pc = "running" /\ \E n \in BootNames : BackoffFire(n)
  \/ boot.pc = "running" /\ \E w \in 1 .. Workers : SyncBegin(w)
  \/ \E w \in 1 .. Workers : SyncConvert(w, ConvertFaults)
  \/ \E w \in 1 .. Workers : SyncUpsert(w)
  \/ \E w \in 1 .. Workers : SyncReturn(w)
  \/ boot.pc \in {"listening", "running"} /\ ServeAdvertisement
  \/ boot.pc \in {"listening", "running"} /\ ServeUploadPack

SpecBoot == InitBoot /\ [][BootNext]_vars

(***************************************************************************)
(* The v1 server's download of a tool binary: GetBinaryFromImage with its  *)
(* two callers DownloadTool and ToolDigest.  A bytes.Buffer is the         *)
(* sequence of its unread bytes: a write appends, a read takes from the    *)
(* front.  Several requests are answered at the same time; each API call   *)
(* (Get, Status().Update) is one step.                                     *)
(***************************************************************************)
MaxRequests == 2     \* requests sent by one client
RetrySteps == 4      \* retry.DefaultBackoff.Steps

ToolVersion == <<"v4.4.20">>
ToolPlatforms == {PlatformLinux, PlatformDarwin}
ToolContents == {<<1>>, <<2, 1>>}

\* fmt.Sprintf("%s/%s", version, platform)
DigestName(version, platform) == version \o <<"/">> \o platform

\* CalculateDigest of a reader that yields `bytes`.
CalculateDigest(bytes) == [prefix |-> "sha256:", hex |-> Sha256(bytes)]

\* A loop over tool.Status.Digests that finds no entry.
DigestCalculatedNever(digests, name) == 0

\* The loop over tool.Status.Digests: Calculated.Seconds of the first entry
\* named `name`, 0 when there is none.
DigestCalculated(digests, name) ==
  LET hits == {i \in 1 .. Len(digests) : digests[i].name = name} IN
  IF hits = {} THEN 0
  ELSE digests[CHOOSE i \in hits : \A j \in hits : i <= j].calculated

\* io.Copy(hash, io.TeeReader(src, dst)): everything unread in src is read,
\* hashed and written to dst; src is left drained.
TeeReadAll(src, dst) == [read |-> src, src |-> <<>>, dst |-> dst \o src]

\* GetBinaryFromImage from the buffers to the end of CalculateDigest, for an
\* image whose binary.Path holds `content`: the buffer it is going to
\* return and the digest it computed.  With the tee, Extract writes into
\* buf, digestReader reads from buf into the first toolBuf, and the
\* variable toolBuf names buf.
ExtractBinary(content, teeInstalled) ==
  IF teeInstalled
    THEN LET buf == <<>> \o content
             drained == TeeReadAll(buf, <<>>)
         IN [toolBuf |-> drained.src, digest |-> CalculateDigest(drained.read)]
    ELSE [toolBuf |-> <<>> \o content, digest |-> NoDigest]

DigestEntry(name, digest) == [name |-> name, digest |-> digest, calculated |-> 1]

\* GetBinaryFromImage up to the retry loop, called by DownloadTool
\* (kind "download") or ToolDigest (kind "digest").
GetBinaryFromImage(c, kind, platform) ==
  /\ requests[c].pc \in {"idle", "done"}
  /\ requests[c].n < MaxRequests
  /\ \E fault \in {None, "pull"} :
       LET teeInstalled ==
             DigestCalculated(tool.digests, DigestName(ToolVersion, platform)) = 0
           bin == ExtractBinary(tool.content, teeInstalled)
           req == [IdleRequest EXCEPT !.kind = kind, !.platform = platform,
                                      !.n = requests[c].n + 1, !.seen = tool.digests]
       IN requests' = [requests EXCEPT ![c] =
            IF fault = "pull" THEN [req EXCEPT !.pc = "done", !.err = "pull"]
            ELSE [req EXCEPT !.pc = IF teeInstalled THEN "retry" ELSE "return",
                             !.tee = teeInstalled, !.toolBuf = bin.toolBuf,
                             !.digest = bin.digest]]
  /\ UNCHANGED <<tool, ctx, served, boot>>
  /\ UNCHANGED ctlVars
  /\ UNCHANGED exVars

\* The Get inside retry.RetryOnConflict.
RetryGet(c) ==
  /\ requests[c].pc = "retry"
  /\ requests' = [requests EXCEPT ![c].pc = "update",
                                  ![c].got = [rv |-> tool.rv, digests |-> tool.digests]]
  /\ UNCHANGED <<tool, ctx, served, boot>>
  /\ UNCHANGED ctlVars
  /\ UNCHANGED exVars

\* The append and the Status().Update inside retry.RetryOnConflict: a
\* conflict runs the function again, at most RetrySteps times; an error left
\* at the end is logged and GetBinaryFromImage goes on.
RetryUpdate(c) ==
  /\ requests[c].pc = "update"
  /\ \E fault \in {None, "update"} :
       LET me == requests[c]
           entry == DigestEntry(DigestName(ToolVersion, me.platform), me.digest)
       IN IF fault = "update"
            THEN /\ requests' = [requests EXCEPT ![c].pc = "return"]
                 /\ tool' = tool
          ELSE IF tool.rv # me.got.rv
            THEN /\ requests' = [requests EXCEPT
                      ![c].tries = me.tries + 1,
                      ![c].pc = IF me.tries + 1 >= RetrySteps THEN "return" ELSE "retry"]
                 /\ tool' = tool
          ELSE /\ tool' = [tool EXCEPT !.digests = Append(me.got.digests, entry),
                                       !.rv = tool.rv + 1]
               /\ requests' = [requests EXCEPT ![c].pc = "return", ![c].wrote = TRUE]
  /\ UNCHANGED <<ctx, served, boot>>
  /\ UNCHANGED ctlVars
  /\ UNCHANGED exVars

\* `_, err = io.Copy(w, reader)` of DownloadTool.
DownloadTool(c) ==
  /\ requests[c].pc = "return" /\ requests[c].kind = "download"
  /\ requests' = [requests EXCEPT ![c].pc = "done", ![c].body = requests[c].toolBuf]
  /\ UNCHANGED <<tool, ctx, served, boot>>
  /\ UNCHANGED ctlVars
  /\ UNCHANGED exVars

\* `return v.CalculateDigest(reader)` of ToolDigest.
ToolDigest(c) ==
  /\ requests[c].pc = "return" /\ requests[c].kind = "digest"
  /\ requests' = [requests EXCEPT ![c].pc = "done",
                                  ![c].result = CalculateDigest(requests[c].toolBuf)]
  /\ UNCHANGED <<tool, ctx, served, boot>>
  /\ UNCHANGED ctlVars
  /\ UNCHANGED exVars

InitTools ==
  /\ store = [n \in PluginNames |-> Absent]
  /\ pending = {}
  /\ wq = EmptyQueue
  /\ backoff = {}
  /\ wk = [w \in 1 .. Workers |-> Idle]
  /\ repo = PrepareLocalGit
  /\ cache = <<>>
  /\ faults = 0
  /\ adminOps = 0
  /\ ctx = Background
  /\ served = NoResponse
  /\ boot = Running
  /\ tool \in {[NoTool EXCEPT !.content = b] : b \in ToolContents}
  /\ requests = [c \in ToolClients |-> IdleRequest]
  /\ exImg = <<>>
  /\ exFiles = <<FileOp(FromA)>>
  /\ exFault = NoFault
  /\ exDone = TRUE
  /\ exOut = ExtractNotRun
  /\ gitCall = NoCall

ToolsNext ==
  \/ \E c \in ToolClients, kind \in {"download", "digest"}, p \in ToolPlatforms :
       GetBinaryFromImage(c, kind, p)
  \/ \E c \in ToolClients : RetryGet(c)
  \/ \E c \in ToolClients : RetryUpdate(c)
  \/ \E c \in ToolClients : DownloadTool(c)
  \/ \E c \in ToolClients : ToolDigest(c)

SpecTools == InitTools /\ [][ToolsNext]_vars

(***************************************************************************)
(* The controller over two resources of which one name begins with the     *)
(* other.  The API server admits DNS subdomain names only (lower case      *)
(* letters, digits, "-" and "."), so a resource name holds no "_".         *)
(***************************************************************************)
HyphenName == <<"oc", "-", "x">>
UnderscoreName == <<"oc", "_", "x">>
SharedNames == {<<"oc">>, HyphenName}

\* Resources without a usable platform: an empty platform list (the field is
\* `omitempty` and has no minimum length), and a list whose only entry has a
\* platform string without "/".
SpecNoPlatforms == PluginSpec(VersionOk, <<>>)
SpecOnlyMalformed == PluginSpec(VersionOk, <<PlatformEntry(PlatformNoSlash, "good")>>)
SharedSpecs == ServeSpecs \cup {SpecNoPlatforms, SpecOnlyMalformed}

InitShared ==
  /\ store = [n \in SharedNames |-> Absent]
  /\ pending = {}
  /\ wq = EmptyQueue
  /\ backoff = {}
  /\ wk = [w \in 1 .. Workers |-> Idle]
  /\ repo = PrepareLocalGit
  /\ cache = <<>>
  /\ faults = 0
  /\ adminOps = 0
  /\ ctx = Background
  /\ served = NoResponse
  /\ boot = Running
  /\ tool = NoTool
  /\ requests = [c \in ToolClients |-> IdleRequest]
  /\ exImg = <<>>
  /\ exFiles = <<FileOp(FromA)>>
  /\ exFault = NoFault
  /\ exDone = TRUE
  /\ exOut = ExtractNotRun
  /\ gitCall = NoCall

NextShared ==
  \/ \E n \in SharedNames, s \in SharedSpecs : AdminApply(n, s)
  \/ \E n \in SharedNames : AdminDelete(n)
  \/ \E n \in SharedNames : InformerDeliver(n)
  \/ \E n \in SharedNames : BackoffFire(n)
  \/ \E w \in 1 .. Workers : SyncBegin(w)
  \/ \E w \in 1 .. Workers : SyncConvert(w, ConvertFaults)
  \/ \E w \in 1 .. Workers : SyncUpsert(w)
  \/ \E w \in 1 .. Workers : SyncReturn(w)

SpecShared == InitShared /\ [][NextShared]_vars

(***************************************************************************)
(* Properties of Extract.                                                  *)
(***************************************************************************)
Range(s) == {s[i] : i \in 1 .. Len(s)}
MaxOf(S) == CHOOSE x \in S : \A y \in S : y <= x

\* Path `from` occurs in the layer as a regular non-empty file.
FileEntries(layer, from) ==
  {j \in 1 .. Len(layer) :
     /\ layer[j].typeflag = TypeReg
     /\ layer[j].content # 0
     /\ Clean(layer[j].name) = TrimPrefixSlash(from)}
\* The layer holds the whiteout marker of `from`.
WhiteoutEntries(layer, from) ==
  {j \in 1 .. Len(layer) : Clean(layer[j].name) = WhiteoutOf(TrimPrefixSlash(from))}
LayersWithFile(img, from) == {i \in 1 .. Len(img) : FileEntries(img[i], from) # {}}
LayersWithWhiteout(img, from) == {i \in 1 .. Len(img) : WhiteoutEntries(img[i], from) # {}}
\* The entries of the destination archive written for `from`.
WritesOf(dest, from) == {k \in 1 .. Len(dest) : dest[k].name = TrimPrefixSlash(from)}
ReturnedSources(out) == {out.files[k].from : k \in 1 .. Len(out.files)}

\* C1 (as claimed): a requested path that is a regular non-empty file in two
\* or more layers is written to the destination exactly once, with the
\* content of the most recent layer that holds it.
C1_ShadowedPathWrittenOnce ==
  (exDone /\ exFault = NoFault) =>
    \A f \in Range(exFiles) :
      LET ls == LayersWithFile(exImg, f.from)
          ws == WritesOf(exOut.dest, f.from)
      IN Cardinality(ls) >= 2 =>
           /\ Cardinality(ws) = 1
           /\ \A k \in ws :
                \E j \in FileEntries(exImg[MaxOf(ls)], f.from) :
                  exOut.dest[k].content = exImg[MaxOf(ls)][j].content

\* C2 (as claimed): when the most recent layer that mentions a requested
\* path holds its whiteout marker, the path is neither written to the
\* destination nor returned.
C2_WhiteoutHidesOlderLayers ==
  (exDone /\ exFault = NoFault) =>
    \A f \in Range(exFiles) :
      LET ls == LayersWithFile(exImg, f.from)
          wh == LayersWithWhiteout(exImg, f.from)
      IN (wh # {} /\ \A i \in ls : i < MaxOf(wh)) =>
           /\ WritesOf(exOut.dest, f.from) = {}
           /\ f.from \notin ReturnedSources(exOut)

\* C3 (as claimed): on success the paths written whole to the archive are
\* exactly the source paths of the returned file operations.
C3_ArchiveHoldsExactlyReturned ==
  (exDone /\ exOut.err = None) =>
    {exOut.dest[k].name : k \in {i \in 1 .. Len(exOut.dest) : exOut.dest[i].complete}}
      = {TrimPrefixSlash(s) : s \in ReturnedSources(exOut)}

\* C4: Extract returns the requested file operations, in order, whose source
\* is a regular non-empty file of some layer; a path of no layer is left out
\* and is no error, also when nothing is found.
C4_ReturnsFoundSubset ==
  exDone =>
    /\ exFault.kind \in {None, "header", "copy"} => exOut.err = None
    /\ exOut.err = None =>
         exOut.files = SelectSeq(exFiles, LAMBDA f : LayersWithFile(exImg, f.from) # {})

C4_Witness ==
  /\ exDone /\ exOut.err = None
  /\ Len(exFiles) = 2 /\ exFiles[1] # exFiles[2]
  /\ Len(exOut.files) = 1

(***************************************************************************)
(* Properties of git.Repo.                                                 *)
(***************************************************************************)
\* The call had nothing to do: Delete of a name with no manifest file in the
\* working tree, Upsert of a nil manifest.
NoOpCall(c) == (c.op = "delete" /\ ~c.existed) \/ (c.op = "upsert" /\ c.nilArg)

\* C6 (as claimed): every call of Repo.Upsert or Repo.Delete that returns
\* success adds exactly one commit, and that commit changes only the file
\* plugins/<name>.yaml of the resource named in the call.
C6_OneCommitOwnFileOnly ==
  (gitCall # NoCall /\ gitCall.err = None) =>
    /\ gitCall.commits = 1
    /\ gitCall.changed \subseteq {PluginFile(gitCall.name)}

\* C6 (amended): a call of Repo.Upsert or Repo.Delete adds at most one
\* commit: none when it fails, none when it succeeds with nothing to do
\* (Delete of a name without manifest file, Upsert of nil), exactly one
\* otherwise.  The commit changes plugins/<name>.yaml of the call and, besides
\* it, only paths an earlier failed call had left staged in the index; after
\* the commit of a Delete the manifest is gone from HEAD.
C6_CallCommits ==
  gitCall # NoCall =>
    /\ gitCall.err # None => gitCall.commits = 0
    /\ gitCall.err = None => gitCall.commits = (IF NoOpCall(gitCall) THEN 0 ELSE 1)
    /\ gitCall.commits = 0 => gitCall.changed = {}
    /\ gitCall.changed \subseteq {PluginFile(gitCall.name)} \cup gitCall.staged
    /\ (gitCall.op = "delete" /\ gitCall.commits = 1) =>
         PluginFile(gitCall.name) \notin DOMAIN repo.head

\* A successful call whose commit carries, next to its own file, the file an
\* earlier failed call had staged.
C6_Witness ==
  /\ gitCall # NoCall /\ gitCall.err = None /\ gitCall.commits = 1
  /\ PluginFile(gitCall.name) \in gitCall.changed
  /\ gitCall.changed \ {PluginFile(gitCall.name)} # {}

(***************************************************************************)
(* Properties of Controller.sync.                                          *)
(***************************************************************************)
RECURSIVE SumCommits(_, _)
SumCommits(calls, i) ==
  IF i > Len(calls) THEN 0 ELSE calls[i].commits + SumCommits(calls, i + 1)

\* The commits the sync a worker is in has made so far.
SyncCommits(w) == SumCommits(wk[w].calls, 1)

\* convertKrewPlugin has returned in the sync the worker is in.
ConvertRan(me) == me.pc \in {"upsert", "done"} /\ me.plugin # NoPlugin

\* C5 (as claimed): every change handled by one sync produces exactly one
\* commit in the repository.
C5_ExactlyOneCommitPerSync ==
  \A w \in 1 .. Workers :
    (wk[w].pc = "done" /\ wk[w].err = None) => SyncCommits(w) = 1

\* C5 (amended): one sync calls the Repository Publisher at most twice, first
\* Delete and then Upsert, both for its own key, and so makes no, one or two
\* commits: a "remove" commit when the manifest file existed, then an "add"
\* commit when the resource converts.  No commit of another sync comes
\* between the two.
C5_SyncCommits ==
  \A w \in 1 .. Workers :
    LET me == wk[w] IN
    me.pc # "idle" =>
      /\ Len(me.calls) <= 2
      /\ \A i \in 1 .. Len(me.calls) :
           /\ me.calls[i].name = me.key
           /\ me.calls[i].op = (IF i = 1 THEN "delete" ELSE "upsert")
           /\ me.calls[i].commits \in {0, 1}
           /\ me.calls[i].changed \cap {PluginFile(n) : n \in PluginNames \ {me.key}}
                \subseteq me.calls[i].staged
      /\ (Len(me.calls) = 2 /\ me.calls[1].commits = 1) => me.calls[2].parentBy = w
      /\ (SyncCommits(w) > 0 /\ me.pc \in {"convert", "upsert"}) => repo.tipBy = w
      /\ (me.pc = "done" /\ me.err = None /\ Len(me.calls) > 0) =>
           SyncCommits(w) = (IF me.calls[1].existed /\ me.calls[1].err = None THEN 1 ELSE 0)
                            + (IF me.ok THEN 1 ELSE 0)

\* A sync of a published resource that returned without error: two commits.
C5_Witness ==
  \E w \in 1 .. Workers :
    wk[w].pc = "done" /\ wk[w].err = None /\ SyncCommits(w) = 2

\* C7 (as claimed): when one platform of a valid resource cannot be pulled or
\* extracted and another one can, the resource converts, its manifest holds
\* the platforms that succeeded, and the manifest is published.
C7_FailedPlatformOmitted ==
  \A w \in 1 .. Workers :
    LET me == wk[w]
        sp == me.plugin.spec
        good == {i \in Slashed(sp) : PlatformMaterializes(sp.platforms[i])}
    IN (/\ ConvertRan(me) /\ me.pc = "done" /\ faults = 0 /\ ~me.stale
        /\ ValidFields(me.plugin.name, sp)
        /\ good # {}) =>
         /\ me.ok
         /\ Len(me.k.platforms) = Cardinality(good)
         /\ PluginFile(me.key) \in DOMAIN repo.head

\* C7 (amended): a platform entry is left out of the manifest only when its
\* tag is not of the form os/arch.  When pull or extraction fails for any
\* other entry the whole resource fails: convertKrewPlugin returns no
\* manifest, repo.Upsert is not called and the resource is not marked
\* Installed.  A resource that converts holds one manifest platform for every
\* os/arch entry, each of them materialized, and carries Installed.
C7_PlatformFailureFailsResource ==
  \A w \in 1 .. Workers :
    LET me == wk[w]
        sp == me.plugin.spec
    IN ConvertRan(me) =>
         /\ me.ok =>
              /\ ValidFields(me.plugin.name, sp)
              /\ \A i \in Slashed(sp) : PlatformMaterializes(sp.platforms[i])
              /\ Len(me.k.platforms) = Cardinality(Slashed(sp))
              /\ \/ me.wrote = Installed(me.plugin.name)
                 \/ HasCondition(me.plugin.conds, Installed(me.plugin.name))
         /\ (\E i \in Slashed(sp) : ~PlatformMaterializes(sp.platforms[i])) =>
              /\ ~me.ok
              /\ me.k = NilPlugin
              /\ Len(me.calls) = 1
              /\ me.wrote # Installed(me.plugin.name)

\* The sync of a resource with one platform that materializes and one whose
\* image cannot be pulled has returned: ImagePullError, nothing published.
C7_Witness ==
  \E w \in 1 .. Workers :
    /\ ConvertRan(wk[w]) /\ wk[w].pc = "done"
    /\ \E i \in Slashed(wk[w].plugin.spec) :
         PlatformMaterializes(wk[w].plugin.spec.platforms[i])
    /\ wk[w].wrote.reason = "ImagePullError"
    /\ ~wk[w].ok

TransientReasons == {"ImagePullError", "ExtractFromImageError", "Sha256ChecksumError"}

UpsertFailed(me) ==
  \E i \in 1 .. Len(me.calls) : me.calls[i].op = "upsert" /\ me.calls[i].err # None

\* C8 (as claimed): a sync that records ImagePullError, ExtractFromImageError
\* or Sha256ChecksumError returns an error as well, and a sync whose
\* repo.Upsert failed records the failure as a condition and returns an error.
C8_FailureRecordedAndReturned ==
  \A w \in 1 .. Workers :
    LET me == wk[w] IN
    me.pc = "done" =>
      /\ me.wrote.reason \in TransientReasons => me.err # None
      /\ UpsertFailed(me) => (me.err # None /\ me.wrote.status = "False")

\* C8 (amended): a sync that records ImagePullError, ExtractFromImageError or
\* Sha256ChecksumError as the condition of the resource returns nil, so the
\* key is not retried with backoff; sync returns an error for such a failure
\* only when the status update itself fails, and then no condition is
\* recorded.  A failure of repo.Upsert is returned as an error and is not
\* recorded as a condition: the condition of that sync, if it wrote one, is
\* Installed.
C8_RecordedOrReturned ==
  \A w \in 1 .. Workers :
    LET me == wk[w] IN
    me.pc = "done" =>
      /\ me.wrote.reason \in TransientReasons => (me.err = None /\ ~me.ok)
      /\ me.err = "status" => me.wrote = NoCondition
      /\ UpsertFailed(me) =>
           /\ me.err # None
           /\ me.wrote \in {NoCondition, Installed(me.plugin.name)}

\* A sync that recorded a checksum failure and returns nil.
C8_Witness ==
  \E w \in 1 .. Workers :
    /\ wk[w].pc = "done"
    /\ wk[w].wrote.reason = "Sha256ChecksumError"
    /\ wk[w].err = None
    /\ store[wk[w].key].conds = <<wk[w].wrote>>

(***************************************************************************)
(* Properties of the controller as a whole.                                *)
(***************************************************************************)
Declared(n) == store[n].present /\ Materializes(n, store[n].spec)

\* HEAD holds the manifest of the declared state of the resource.
Published(n) ==
  /\ PluginFile(n) \in DOMAIN repo.head
  /\ repo.head[PluginFile(n)] = Manifest(n, store[n].spec)

\* The first (and only) condition of the resource is True / Installed.
IsInstalled(n) ==
  /\ Len(store[n].conds) > 0
  /\ store[n].conds[1].status = "True"
  /\ store[n].conds[1].reason = "Installed"

\* C9: under fair scheduling, a declared resource that is valid and whose
\* images materialize is eventually published in HEAD as plugins/<name>.yaml
\* with first condition True / Installed, unless its declaration changes.
C9_EventuallyInstalled ==
  \A n \in PluginNames :
    Declared(n) ~> ((Published(n) /\ IsInstalled(n)) \/ ~Declared(n))

C9_Witness ==
  \E n \in PluginNames :
    /\ Declared(n) /\ Published(n) /\ IsInstalled(n)
    /\ faults > 0

Quiescent ==
  /\ pending = {}
  /\ backoff = {}
  /\ wq.queue = <<>>
  /\ wq.processing = {}
  /\ \A w \in 1 .. Workers : wk[w].pc = "idle"

\* The repository holds what the declared state of the resource asks for.
Reflects(n) ==
  IF Declared(n) THEN Published(n) ELSE PluginFile(n) \notin DOMAIN repo.head

InProgress == {w \in DOMAIN wk : wk[w].pc # "idle"}

\* A step of a worker inside sync that calls the repository: SyncBegin
\* (DeletePlugin) or SyncUpsert (Repo.Upsert).
RepoStepOfSync ==
  \E w \in DOMAIN wk : wk[w].pc \in {"idle", "upsert"} /\ wk'[w].pc # wk[w].pc

\* C11: at most one sync is in progress at any time; the working tree, the
\* index and the history of the repository change only in a step of that
\* sync; a step that serves an HTTP request changes neither the repository
\* nor the cached archives; and what the two git handlers send is the tree
\* of the commit HEAD named when the request was served.
C11_SingleWriterCommittedReads ==
  /\ [](Cardinality(InProgress) <= 1)
  /\ [][(repo' # repo => RepoStepOfSync /\ served' = served)
        /\ (served' # served => repo' = repo /\ cache' = cache)
        /\ ((served' # served /\ served'.handler \in {"refs", "pack"}
             /\ served'.status = 200) => served'.tree = repo.head)]_vars

\* A pack was served while a sync was between convertKrewPlugin and
\* Repo.Upsert and the working tree held a change that is not committed: the
\* pack is the tree of HEAD.
C11_Witness ==
  /\ served.handler = "pack" /\ served.status = 200
  /\ served.tree = repo.head
  /\ repo.work # repo.head
  /\ \E w \in DOMAIN wk : wk[w].pc = "upsert"

\* C12: once the root context was canceled while a sync was inside
\* convertKrewPlugin (image pull, extraction), that sync makes no commit.
C12_NoCommitAfterCancel ==
  \A w \in DOMAIN wk :
    (ctx.canceled /\ w \in ctx.during) =>
      \A i \in 1 .. Len(wk[w].calls) :
        wk[w].calls[i].op = "upsert" => wk[w].calls[i].commits = 0

(***************************************************************************)
(* Properties of validation and of the outcome of convertKrewPlugin.       *)
(***************************************************************************)
NoVPrefix(spec) == spec.version = <<>> \/ spec.version[1] # "v"

UpsertCalls(me) == {i \in 1 .. Len(me.calls) : me.calls[i].op = "upsert"}

\* The sync recorded a condition with this reason, or the resource it
\* fetched carried it already.
Carries(me, reason) ==
  \/ me.wrote.status = "False" /\ me.wrote.reason = reason
  \/ \E i \in 1 .. Len(me.plugin.conds) :
       me.plugin.conds[i].status = "False" /\ me.plugin.conds[i].reason = reason

\* C13: no manifest in HEAD carries a version without the prefix v, and a
\* sync of a resource whose version lacks the prefix converts to nothing,
\* does not call Repo.Upsert, and ends with the InvalidField condition on
\* the resource; the only other end is the error of the status update,
\* which sync returns.
C13_NoVNeverPublished ==
  /\ \A n \in PluginNames :
       PluginFile(n) \in DOMAIN repo.head =>
         ~NoVPrefix(repo.head[PluginFile(n)])
  /\ \A w \in DOMAIN wk :
       LET me == wk[w] IN
       (ConvertRan(me) /\ NoVPrefix(me.plugin.spec)) =>
         /\ ~me.ok /\ me.k = NilPlugin /\ me.pc = "done"
         /\ UpsertCalls(me) = {}
         /\ me.err \in {None, "status"}
         /\ me.err = None => Carries(me, "InvalidField")

\* The resource was published and then changed to a version without v: the
\* sync removed the manifest and recorded InvalidField.
C13_Witness ==
  \E w \in DOMAIN wk :
    /\ ConvertRan(wk[w]) /\ NoVPrefix(wk[w].plugin.spec)
    /\ wk[w].wrote.reason = "InvalidField"
    /\ wk[w].calls[1].commits = 1
    /\ PluginFile(wk[w].key) \notin DOMAIN repo.head
    /\ store[wk[w].key].conds = <<wk[w].wrote>>

\* The name holds a character outside letters, digits, '-' and '_'.
Dotted(n) == \E i \in 1 .. Len(n) : n[i] \in {".", "..", "/"}

\* C14: a resource whose name does not match the safe-identifier pattern is
\* never published (no file plugins/<name>.yaml in the working tree or in
\* HEAD); its conversion returns no manifest and ok = false, Repo.Upsert is
\* not called, and the sync returns nil with the condition False /
\* InvalidField on the resource; the only error it can return is that of the
\* failed status update.
C14_UnsafeNameInvalidField ==
  /\ \A n \in ResourceNames :
       Dotted(n) =>
         PluginFile(n) \notin DOMAIN repo.head /\ PluginFile(n) \notin DOMAIN repo.work
  /\ \A w \in DOMAIN wk :
       LET me == wk[w] IN
       (ConvertRan(me) /\ Dotted(me.plugin.name)) =>
         /\ ~me.ok /\ me.k = NilPlugin /\ me.pc = "done"
         /\ UpsertCalls(me) = {}
         /\ me.err \in {None, "status"}
         /\ me.err = None => Carries(me, "InvalidField")
         /\ me.wrote # NoCondition =>
              me.wrote = Condition("False", "InvalidField",
                                   <<"invalid plugin name">> \o me.plugin.name)

\* The sync of the resource oc.v1 has recorded InvalidField and returns nil.
C14_Witness ==
  \E w \in DOMAIN wk :
    /\ ConvertRan(wk[w]) /\ Dotted(wk[w].plugin.name)
    /\ wk[w].wrote.reason = "InvalidField" /\ wk[w].wrote.status = "False"
    /\ wk[w].err = None /\ ~wk[w].ok
    /\ store[wk[w].key].conds = <<wk[w].wrote>>

\* C15: in a sync of a present resource no call of the Repository Publisher
\* (and with it no cache file operation of DeletePlugin) is made with a name
\* that fails the safe-identifier check.
C15_NameCheckedBeforeUse ==
  \A w \in DOMAIN wk :
    (wk[w].pc # "idle" /\ wk[w].plugin # NoPlugin) =>
      \A i \in 1 .. Len(wk[w].calls) : ~Dotted(wk[w].calls[i].name)

\* The image of the entry can be pulled and extracted, and the extraction
\* resolves none of the requested files.
ResolvesNothing(p) ==
  LET reg == Registry(p.image)
      ex == Extract(reg.layers, p.files, reg.fault)
  IN /\ ImagePullSecretCheck(p).reason = None
     /\ reg.pull = None /\ ex.err = None /\ Len(ex.files) = 0

\* The os/arch entries of the resource that do not materialize.
Stops(spec) == {i \in Slashed(spec) : ~PlatformMaterializes(spec.platforms[i])}

BinaryNotFound ==
  Condition("False", "BinaryNotFound", <<"failed to find the binary from image">>)

\* C16: when the first platform of a valid resource that does not materialize
\* is one whose extraction resolves no file, the conversion stops there: it
\* returns no manifest and Repo.Upsert is not called in that sync.  Without a
\* failure of the environment the condition the sync leaves on the resource
\* is BinaryNotFound (the error of a status update refused for a changed
\* resource is the only other end), and a sync that recorded BinaryNotFound
\* returns nil and publishes nothing.
C16_ZeroFilesBinaryNotFound ==
  \A w \in DOMAIN wk :
    LET me == wk[w]
        sp == me.plugin.spec
    IN ConvertRan(me) =>
         /\ (/\ ValidFields(me.plugin.name, sp)
             /\ Stops(sp) # {}
             /\ ResolvesNothing(sp.platforms[CHOOSE i \in Stops(sp) :
                                               \A j \in Stops(sp) : i <= j])) =>
              /\ ~me.ok /\ me.k = NilPlugin /\ me.pc = "done"
              /\ UpsertCalls(me) = {}
              /\ faults = 0 =>
                   /\ me.err \in {None, "status"}
                   /\ me.wrote \in {NoCondition, BinaryNotFound}
                   /\ me.err = None =>
                        \/ me.wrote = BinaryNotFound
                        \/ HasCondition(me.plugin.conds, BinaryNotFound)
         /\ me.wrote.reason = "BinaryNotFound" =>
              /\ ~me.ok /\ me.err = None /\ UpsertCalls(me) = {}

\* The resource was published and its image then changed to one without the
\* file: the sync removed the manifest, recorded BinaryNotFound, returns nil.
C16_Witness ==
  \E w \in DOMAIN wk :
    /\ ConvertRan(wk[w]) /\ wk[w].pc = "done" /\ faults = 0
    /\ ResolvesNothing(wk[w].plugin.spec.platforms[1])
    /\ wk[w].wrote = BinaryNotFound
    /\ wk[w].calls[1].commits = 1
    /\ PluginFile(wk[w].key) \notin DOMAIN repo.head
    /\ store[wk[w].key].conds = <<BinaryNotFound>>

\* The platform entries with a tag of the form os/arch, in their order.
HasSlash(p) == \E i \in 1 .. Len(p.platform) : p.platform[i] = "/"
SlashedSeq(spec) == SelectSeq(spec.platforms, HasSlash)

\* C17: a platform entry whose tag has no "/" is left out of the manifest
\* and does not stop the conversion: the manifest of a resource that
\* converts holds exactly its os/arch entries, in their order, and a valid
\* resource all of whose os/arch entries materialize converts (when nothing
\* in the environment fails and the resource is not changed meanwhile) and
\* is published with that manifest, whatever entries without "/" it holds.
C17_NoSlashPlatformSkipped ==
  \A w \in DOMAIN wk :
    LET me == wk[w]
        sp == me.plugin.spec
        tagged == SlashedSeq(sp)
    IN ConvertRan(me) =>
         /\ me.ok =>
              /\ Len(me.k.platforms) = Len(tagged)
              /\ \A j \in 1 .. Len(tagged) :
                   /\ me.k.platforms[j].os \o <<"/">> \o me.k.platforms[j].arch
                        = tagged[j].platform
                   /\ me.k.platforms[j].uri
                        = <<"download", me.plugin.name, ReplaceSlash(tagged[j].platform)>>
         /\ (/\ ValidFields(me.plugin.name, sp) /\ Stops(sp) = {}
             /\ faults = 0 /\ ~me.stale) =>
              /\ me.ok
              /\ me.pc = "done" =>
                   /\ me.err = None
                   /\ PluginFile(me.key) \in DOMAIN repo.head
                   /\ repo.head[PluginFile(me.key)] = me.k

\* The sync of a resource with the entries "linux" and "darwin/arm64" has
\* published a manifest that holds darwin/arm64 alone.
C17_Witness ==
  \E w \in DOMAIN wk :
    LET me == wk[w] IN
    /\ ConvertRan(me) /\ me.pc = "done" /\ me.ok
    /\ Len(SlashedSeq(me.plugin.spec)) < Len(me.plugin.spec.platforms)
    /\ Len(me.k.platforms) = 1
    /\ me.k.platforms[1].os = <<"darwin">>
    /\ PluginFile(me.key) \in DOMAIN repo.head
    /\ repo.head[PluginFile(me.key)] = me.k

(***************************************************************************)
(* Properties of the removal of a resource.                                *)
(***************************************************************************)
\* Nothing of the name is published or cached.
Gone(n) ==
  /\ PluginFile(n) \notin DOMAIN repo.head
  /\ \A f \in DOMAIN cache : ~GlobMatches(n, f)

\* No event, retry or sync of the name is outstanding.
Settled(n) ==
  /\ n \notin pending /\ n \notin backoff
  /\ n \notin wq.dirty /\ n \notin wq.processing

\* The sync of the worker took the not-found branch and returns nil.
DeletedOk(me) ==
  me.pc = "done" /\ me.plugin = NoPlugin /\ Len(me.calls) = 1 /\ me.err = None

\* C18: when the sync for a name whose resource does not exist returns nil,
\* HEAD holds no plugins/<name>.yaml and the cache directory holds no archive
\* <name>_<os>_<arch>.tar.gz, and this stays so while the name is not
\* declared again (no resource of the name, nothing of it outstanding).
C18_DeletedStaysGone ==
  /\ \A w \in DOMAIN wk : DeletedOk(wk[w]) => Gone(wk[w].key)
  /\ \A n \in PluginNames : (~store[n].present /\ Settled(n)) => Gone(n)

(***************************************************************************)
(* Properties of UpsertPlugin.                                             *)
(***************************************************************************)
\* C19: in a sync of a present resource Repo.Upsert is called if and only if
\* convertKrewPlugin returned ok = true, once, for the name of the resource
\* and with the manifest it returned; an Upsert that fails makes no commit,
\* its error is what sync returns, and a key whose sync returned an error is
\* handed to the rate-limited retry of the queue.
C19_UpsertIffOk ==
  /\ [](\A w \in DOMAIN wk :
          LET me == wk[w] IN
          /\ (me.pc = "done" /\ ConvertRan(me)) => (UpsertCalls(me) # {} <=> me.ok)
          /\ me.pc = "upsert" => (me.ok /\ me.k # NilPlugin /\ UpsertCalls(me) = {})
          /\ me.pc = "convert" => UpsertCalls(me) = {}
          /\ \A i \in UpsertCalls(me) :
               /\ i = Len(me.calls) /\ Cardinality(UpsertCalls(me)) = 1
               /\ me.calls[i].name = me.plugin.name /\ ~me.calls[i].nilArg
               /\ me.calls[i].commits = 0 <=> me.err # None
               /\ me.calls[i].commits = 1 =>
                    repo.head[PluginFile(me.key)] = me.k \/ repo.tipBy # w)
  /\ [][\A w \in DOMAIN wk :
          (wk[w].pc = "done" /\ wk'[w].pc = "idle" /\ wk[w].err # None) =>
            wk[w].key \in backoff']_vars

\* Repo.Upsert of a converted resource failed: the sync returns the error.
C19_Witness ==
  \E w \in DOMAIN wk :
    /\ wk[w].pc = "done" /\ wk[w].ok
    /\ UpsertFailed(wk[w])
    /\ wk[w].err # None

(***************************************************************************)
(* Properties of the conditions that report a malformed resource.          *)
(***************************************************************************)
UserReasons == {"InvalidField", "InvalidSecretType", "BinaryNotFound"}

\* The resource the sync fetched carries a condition with such a reason.
FetchedUserError(me) ==
  \E i \in 1 .. Len(me.plugin.conds) :
    me.plugin.conds[i].status = "False" /\ me.plugin.conds[i].reason \in UserReasons

\* C20 (as claimed): a sync that ends with InvalidField, InvalidSecretType or
\* BinaryNotFound records the condition and returns nil, and the resource is
\* processed again only after a change made by an administrator: when the
\* administrator made one change and nothing in the environment failed, no
\* sync fetches a resource that carries such a condition already.
C20_ProcessedAgainOnlyAfterChange ==
  \A w \in DOMAIN wk :
    LET me == wk[w] IN
    /\ me.wrote.reason \in UserReasons => (me.err = None /\ me.pc = "done")
    /\ (adminOps <= 1 /\ faults = 0 /\ me.pc # "idle") => ~FetchedUserError(me)

\* C20 (amended): a sync that records InvalidField, InvalidSecretType or
\* BinaryNotFound returns nil without a manifest and without a call of
\* Repo.Upsert, and its key is not handed to the rate-limited retry.  The
\* status update raises a change event of its own, so the resource is synced
\* once more without any change by the administrator; that sync finds the
\* condition on the resource, writes nothing, raises no event and returns
\* nil.  A sync never writes a condition the fetched resource carries.
C20_UserErrorRecordedOnce ==
  /\ [](\A w \in DOMAIN wk :
          LET me == wk[w] IN
          /\ me.wrote.reason \in UserReasons =>
               /\ me.err = None /\ ~me.ok /\ me.pc = "done"
               /\ UpsertCalls(me) = {}
               /\ me.wrote.status = "False"
          /\ me.wrote # NoCondition => ~HasCondition(me.plugin.conds, me.wrote)
          /\ (adminOps <= 1 /\ faults = 0 /\ ConvertRan(me) /\ FetchedUserError(me)) =>
               /\ me.wrote = NoCondition /\ me.err = None /\ ~me.ok
               /\ me.key \notin pending)
  /\ [][\A w \in DOMAIN wk :
          /\ (wk[w].pc = "convert" /\ wk'[w].wrote.reason \in UserReasons) =>
               /\ wk[w].key \in pending'
               /\ store'[wk[w].key].conds = <<wk'[w].wrote>>
          /\ (wk[w].pc = "done" /\ wk'[w].pc = "idle" /\ wk[w].err = None) =>
               backoff' = backoff]_vars

\* The second sync of a resource whose pull secret has an unsupported type,
\* started by the event of the status update: it found InvalidSecretType on
\* the resource and wrote nothing.
C20_Witness ==
  \E w \in DOMAIN wk :
    LET me == wk[w] IN
    /\ ConvertRan(me) /\ me.pc = "done"
    /\ adminOps = 1 /\ faults = 0
    /\ \E i \in 1 .. Len(me.plugin.conds) : me.plugin.conds[i].reason = "InvalidSecretType"
    /\ me.wrote = NoCondition /\ me.err = None

(***************************************************************************)
(* Properties of the decoding of the fetched object.                       *)
(***************************************************************************)
Undecodable(n) == store[n].present /\ store[n].spec.version = VersionNotString

\* C21: a sync whose Get returned an object that does not decode returns nil
\* at once: it calls neither DeletePlugin nor UpsertPlugin, leaves the
\* repository, the archive cache and every status as they were, and its key
\* is not handed to the rate-limited retry.  No conversion ever runs on such
\* an object.
C21_UndecodableDropped ==
  /\ [](\A w \in DOMAIN wk :
          wk[w].pc \in {"convert", "upsert"} =>
            wk[w].plugin.spec.version # VersionNotString)
  /\ [][\A w \in DOMAIN wk :
          /\ (/\ wk[w].pc = "idle" /\ wk'[w].pc # "idle"
              /\ wk'[w].key # <<>> /\ wk'[w].err # "get"
              /\ Undecodable(wk'[w].key)) =>
               /\ wk'[w].pc = "done" /\ wk'[w].err = None
               /\ wk'[w].calls = <<>> /\ wk'[w].wrote = NoCondition
               /\ repo' = repo /\ cache' = cache /\ store' = store
               /\ backoff' = backoff /\ pending' = pending
          /\ (wk[w].pc = "done" /\ wk[w].err = None /\ wk'[w].pc = "idle") =>
               /\ backoff' = backoff
               /\ repo' = repo /\ cache' = cache /\ store' = store]_vars

\* The published resource was changed into one that does not decode, and the
\* sync of its name has dropped the event: the manifest is still in HEAD.
C21_Witness ==
  \E w \in DOMAIN wk :
    /\ wk[w].pc = "done" /\ wk[w].key # <<>>
    /\ wk[w].calls = <<>> /\ wk[w].err = None
    /\ Undecodable(wk[w].key)
    /\ PluginFile(wk[w].key) \in DOMAIN repo.head

(***************************************************************************)
(* Properties of updateStatusCondition.                                    *)
(***************************************************************************)
SameTriple(a, b) ==
  a.reason = b.reason /\ a.status = b.status /\ a.message = b.message

\* C22: the conditions of a resource change only by a status write of a sync
\* of that resource; the write happens only when the fetched resource carries
\* no condition with the same (reason, status, message), and it leaves the
\* resource with exactly the one condition written.
C22_StatusWriteOnlyWhenNew ==
  [][\A n \in DOMAIN store :
       (store[n].present /\ store'[n].present /\ store'[n].conds # store[n].conds) =>
         \E w \in DOMAIN wk :
           /\ wk[w].pc = "convert" /\ wk[w].key = n
           /\ wk'[w].wrote # NoCondition
           /\ store'[n].conds = <<wk'[w].wrote>>
           /\ \A i \in 1 .. Len(wk[w].plugin.conds) :
                ~SameTriple(wk[w].plugin.conds[i], wk'[w].wrote)]_vars

\* A sync fetched a resource carrying one condition, reported a different
\* one, and the resource now carries the new condition alone.
C22_Witness ==
  \E w \in DOMAIN wk :
    /\ wk[w].pc = "done" /\ wk[w].wrote # NoCondition
    /\ Len(wk[w].plugin.conds) = 1
    /\ ~SameTriple(wk[w].plugin.conds[1], wk[w].wrote)
    /\ store[wk[w].key].present
    /\ store[wk[w].key].conds = <<wk[w].wrote>>

\* C23: a status write answered with a conflict is retried inside the write
\* (fetch again, apply again, update again), so a sync that met no failure
\* of the environment never ends with the error of its status update while
\* the resource exists.
C23_ConflictRetriedByWrite ==
  \A w \in DOMAIN wk :
    (/\ wk[w].pc = "done" /\ wk[w].stale
     /\ faults = 0 /\ wk[w].key # <<>> /\ store[wk[w].key].present) =>
      wk[w].err # "status"

(***************************************************************************)
(* Properties of the start of the process.                                 *)
(***************************************************************************)
\* C24: once PrepareLocalGit has returned without error the repository holds
\* one commit and a branch, and until the controller runs it holds the marker
\* file alone, whatever was at the path before; the HTTP server answers git
\* requests only after that, and every tree it serves contains the marker
\* file.
C24_SeededBeforeServed ==
  /\ boot.pc \in {"prepared", "informers", "listening", "running"} =>
       boot.commits = 1 /\ boot.branch
  /\ boot.pc \in {"prepared", "informers", "listening"} => repo = PrepareLocalGit
  /\ served.handler \in {"refs", "pack"} =>
       /\ boot.pc \in {"listening", "running"}
       /\ boot.commits >= 1 /\ boot.branch
       /\ served.status = 200 => ReadmeFile \in DOMAIN served.tree
  /\ boot.pc = "failed" => served = NoResponse

\* The path held the repository of an earlier run, and the first
\* advertisement served, before the controller runs, is the seed tree.
C24_Witness ==
  /\ boot.found = LeftoverRepository
  /\ boot.pc = "listening"
  /\ served.handler = "refs" /\ served.status = 200
  /\ served.tree = SeedTree

(***************************************************************************)
(* Properties of repeated calls of the Repository Publisher.               *)
(***************************************************************************)
SuccessfulUpsert(call) ==
  call # NoCall /\ call.op = "upsert" /\ call.err = None /\ ~call.nilArg

\* C25: when a successful Upsert of a manifest is followed by a successful
\* Upsert of the same name with the same manifest, each of the two calls
\* adds one commit, the second commit changes no path, and the working tree
\* after the second call is the one the first call left.
C25_UpsertTwice ==
  [][(/\ SuccessfulUpsert(gitCall) /\ SuccessfulUpsert(gitCall')
      /\ gitCall'.name = gitCall.name
      /\ repo'.work[PluginFile(gitCall.name)] = repo.work[PluginFile(gitCall.name)]) =>
       /\ gitCall.commits = 1 /\ gitCall'.commits = 1
       /\ gitCall'.changed \subseteq gitCall'.staged
       /\ repo'.work = repo.work]_vars

\* The second of two equal Upserts: a commit that changes nothing.
C25_Witness ==
  /\ SuccessfulUpsert(gitCall)
  /\ gitCall.existed /\ gitCall.commits = 1
  /\ gitCall.changed = {} /\ gitCall.staged = {}
  /\ repo.work[PluginFile(gitCall.name)] = repo.head[PluginFile(gitCall.name)]

\* C26: Delete of a name whose manifest file is not in the working tree
\* returns success when Stat reports that the file does not exist, and
\* whatever Stat returns the call leaves the working tree, the index and the
\* commit history as they were.
C26_DeleteMissingNoOp ==
  /\ [](\A n \in PluginNames :
          PluginFile(n) \notin DOMAIN repo.work =>
            /\ \A fault \in {None, "add", "commit"} :
                 RepoDelete(repo, n, fault, 1) = GitResult(repo, None, 0)
            /\ RepoDelete(repo, n, "stat", 1).repo = repo
            /\ RepoDelete(repo, n, "stat", 1).commits = 0)
  /\ [][(gitCall' # NoCall /\ gitCall'.op = "delete" /\ ~gitCall'.existed) =>
          /\ repo' = repo
          /\ gitCall'.commits = 0 /\ gitCall'.changed = {}]_vars

\* A Delete of a name without manifest file returned success next to the
\* published manifest of another name.
C26_Witness ==
  /\ gitCall # NoCall /\ gitCall.op = "delete"
  /\ ~gitCall.existed /\ gitCall.err = None /\ gitCall.commits = 0
  /\ PluginFile(gitCall.name) \notin DOMAIN repo.work
  /\ \E n \in PluginNames : PluginFile(n) \in DOMAIN repo.head

(***************************************************************************)
(* Properties of the argument checks and the layer readers of Extract.     *)
(***************************************************************************)
NoIO(out) == out.err # None /\ ~out.created /\ out.opened = {} /\ out.dest = <<>>

DuplicateSources(files) ==
  \E i, j \in 1 .. Len(files) : i # j /\ files[i].from = files[j].from

\* C27: an Extract called with the same source path in two file operations
\* fails, and it fails before any I/O: the destination is not created and no
\* layer is read.
C27_DuplicateSourcesRejected ==
  (exDone /\ DuplicateSources(exFiles)) => NoIO(exOut)

\* C28: an Extract called with no file operation at all fails, and it fails
\* before any I/O: the destination is not created and no layer is read.
C28_ZeroTargetsRejected ==
  (exDone /\ Len(exFiles) = 0) => NoIO(exOut)

\* C29: when Extract has returned, with or without an error, every layer
\* reader it opened was closed.
C29_ReadersClosed ==
  exDone => exOut.closed = exOut.opened

\* Extract returned the error of tarReader.Next() in the second layer it
\* read, with both readers closed.
C29_Witness ==
  /\ exDone /\ exOut.err = "reading tar"
  /\ Cardinality(exOut.opened) = 2
  /\ exOut.closed = exOut.opened

(***************************************************************************)
(* Properties of the download handler.                                     *)
(***************************************************************************)
HeaderValues(r, name) == {h.value : h \in {x \in r.headers : x.name = name}}

DownloadFile(n, p) == <<TarballPath, "/">> \o n \o <<"_">> \o p \o <<".tar.gz">>

\* The answer to GET download?name=n&platform=p in the current state: 200
\* with the bytes of the cached archive of n and p when there is one, 404
\* when there is none.
DownloadAnswers(n, p) ==
  LET r == HandleDownloadPlugin("GET", n, p) IN
  IF DownloadFile(n, p) \in DOMAIN cache
    THEN r.status = 200 /\ r.file = cache[DownloadFile(n, p)]
    ELSE r.status = 404 /\ r.file = <<>>

C31_ToolDigestOfContent ==
  \A c \in ToolClients :
    (requests[c].pc = "done" /\ requests[c].kind = "digest" /\ requests[c].err = None) =>
      requests[c].result = CalculateDigest(tool.content)

EntriesNamed(digests, name) == {i \in 1 .. Len(digests) : digests[i].name = name}

\* C32: a call of GetBinaryFromImage installs the tee and computes a digest
\* exactly when the tool it fetched has no digest entry named
\* version/platform; the status changes only by such a call, which appends
\* one entry of that name holding the SHA-256 of the binary, and a call that
\* found the entry recorded leaves the status unchanged.
C32_DigestOnlyWhenUnknown ==
  /\ [](\A c \in ToolClients :
          (requests[c].pc \notin {"idle"} /\ requests[c].err = None) =>
            LET known == EntriesNamed(requests[c].seen,
                                      DigestName(ToolVersion, requests[c].platform)) # {}
            IN /\ requests[c].tee = ~known
               /\ known => requests[c].digest = NoDigest /\ ~requests[c].wrote
               /\ ~known => requests[c].digest = CalculateDigest(tool.content))
  /\ [][tool' # tool =>
          \E c \in ToolClients :
            /\ requests[c].pc = "update" /\ requests'[c].wrote
            /\ requests[c].tee
            /\ Len(tool'.digests) = Len(tool.digests) + 1
            /\ SubSeq(tool'.digests, 1, Len(tool.digests)) = tool.digests
            /\ tool'.digests[Len(tool'.digests)].name =
                 DigestName(ToolVersion, requests[c].platform)
            /\ tool'.digests[Len(tool'.digests)].digest = CalculateDigest(tool.content)
            /\ tool'.content = tool.content]_vars

\* A second download of the same platform found the digest recorded by the
\* first one and went without tee and without a status write.
C32_Witness ==
  \E c \in ToolClients :
    /\ requests[c].pc = "done" /\ requests[c].kind = "download" /\ requests[c].err = None
    /\ ~requests[c].tee /\ ~requests[c].wrote
    /\ Len(tool.digests) = 1
    /\ requests[c].seen = tool.digests
    /\ tool.digests[1].name = DigestName(ToolVersion, requests[c].platform)
    /\ tool.digests[1].digest = CalculateDigest(tool.content)

\* C33: every DownloadTool that returns without error has written to the
\* response the bytes of the binary in the image, on the first download
\* (through the tee) as on later ones.
C33_DownloadWritesBinary ==
  \A c \in ToolClients :
    (requests[c].pc = "done" /\ requests[c].kind = "download" /\ requests[c].err = None) =>
      requests[c].body = tool.content

\* C40: whatever the interleaving of the requests, the status holds at most
\* one digest entry of each name version/platform.
C40_OneDigestPerBinary ==
  \A p \in ToolPlatforms :
    Cardinality(EntriesNamed(tool.digests, DigestName(ToolVersion, p))) <= 1

(***************************************************************************)
(* Properties of what a sync records and what it leaves published.         *)
(***************************************************************************)
\* C34: a sync that has returned after writing the condition Installed has
\* committed the manifest it built: HEAD holds that manifest under the
\* resource's name.
C34_InstalledMeansPublished ==
  \A w \in DOMAIN wk :
    (wk[w].pc = "done" /\ wk[w].wrote # NoCondition /\ wk[w].wrote.reason = "Installed") =>
      /\ wk[w].err = None
      /\ PluginFile(wk[w].key) \in DOMAIN repo.head

\* C35: a sync that fetched a resource whose manifest file existed and whose
\* convertKrewPlugin did not succeed has made no commit, and the manifest is
\* still in HEAD.
C35_FailedUpdateKeepsPublished ==
  \A w \in DOMAIN wk :
    (/\ wk[w].pc = "done" /\ wk[w].plugin # NoPlugin /\ ~wk[w].ok
     /\ wk[w].calls # <<>> /\ wk[w].calls[1].existed) =>
      /\ \A i \in 1 .. Len(wk[w].calls) : wk[w].calls[i].commits = 0
      /\ PluginFile(wk[w].key) \in DOMAIN repo.head

(***************************************************************************)
(* Properties of the names of the cached archives.                         *)
(***************************************************************************)
ArchivePlatforms == {PlatformLinux, PlatformDarwin}

\* The archives of resource b survive DeletePlugin(a) and are not the
\* archives of a.
ArchivesApart(a, b) ==
  \A p \in ArchivePlatforms :
    /\ ~GlobMatches(a, TarballFile(b, p))
    /\ \A q \in ArchivePlatforms : TarballFile(a, q) # TarballFile(b, p)

\* A step that removes or rewrites a cached archive of resource n is a step
\* of a sync of n.
OwnArchivesOnly ==
  \A n \in SharedNames, p \in ArchivePlatforms :
    LET f == TarballFile(n, p) IN
    (f \in DOMAIN cache /\ (f \notin DOMAIN cache' \/ cache'[f] # cache[f])) =>
      \E w \in DOMAIN wk : wk'[w].key = n /\ wk'[w].pc # wk[w].pc

\* C36 (as claimed): for all distinct names the pattern of convertKrewPlugin
\* admits, names with "_" and "-" included, the archives of one are neither
\* matched by the delete pattern of the other nor named like its archives.
C36_ArchivesApartForPatternNames ==
  /\ \A a, b \in SharedNames \cup {UnderscoreName} :
       (a # b /\ SafePluginName(a) /\ SafePluginName(b)) => ArchivesApart(a, b)
  /\ \A f \in DOMAIN cache : \E n \in SharedNames : GlobMatches(n, f)

\* C36 (amended): for all distinct names the API server admits (no "_"), a
\* name that begins with the other one and "-" included, the archives of
\* one are neither matched by the delete pattern of the other nor named like
\* its archives, and only a sync of a resource removes or rewrites that
\* resource's cached archives.
C36_ArchivesApartForResourceNames ==
  /\ [](/\ \A a, b \in SharedNames : a # b => ArchivesApart(a, b)
        /\ \A f \in DOMAIN cache : \E n \in SharedNames : GlobMatches(n, f))
  /\ [][OwnArchivesOnly]_vars

\* The sync of oc has removed the manifest and the archive of oc, and the
\* archive of oc-x is still cached.
C36_Witness ==
  \E w \in DOMAIN wk :
    /\ wk[w].pc = "convert" /\ wk[w].key = <<"oc">>
    /\ wk[w].calls[1].existed /\ wk[w].calls[1].commits = 1
    /\ TarballFile(<<"oc">>, PlatformLinux) \notin DOMAIN cache
    /\ TarballFile(HyphenName, PlatformLinux) \in DOMAIN cache

(***************************************************************************)
(* Properties of the platforms of what is published.                       *)
(***************************************************************************)
\* C39: every manifest in HEAD has at least one platform entry, and a sync
\* that wrote the condition Installed built a manifest with at least one
\* platform entry.
C39_PublishedHasPlatform ==
  /\ \A n \in SharedNames :
       PluginFile(n) \in DOMAIN repo.head => Len(repo.head[PluginFile(n)].platforms) >= 1
  /\ \A w \in DOMAIN wk :
       (wk[w].wrote # NoCondition /\ wk[w].wrote.reason = "Installed" /\ wk[w].k # NilPlugin) =>
         Len(wk[w].k.platforms) >= 1

(***************************************************************************)
(* Properties of downloads that run while syncs run.                       *)
(***************************************************************************)
\* C37: in every state where the manifest of a resource in HEAD lists a
\* platform with a checksum, a GET of the download of that resource and
\* platform that is answered with 200 is answered with bytes of that
\* SHA-256, and a download that was answered so has these bytes.
C37_DownloadMatchesManifest ==
  \A n \in PluginNames :
    PluginFile(n) \in DOMAIN repo.head =>
      LET m == repo.head[PluginFile(n)] IN
      \A i \in 1 .. Len(m.platforms) :
        LET e == m.platforms[i]
            r == HandleDownloadPlugin("GET", n, e.uri[3])
        IN /\ r.status = 200 => Sha256(r.file) = e.sha256
           /\ (served = r /\ r.status = 200) => Sha256(served.file) = e.sha256

(***************************************************************************)
(* Properties of the events the controller raises itself.                  *)
(***************************************************************************)
\* A step of convertKrewPlugin that updated the status of its resource.
StatusWritten(w) == wk[w].pc = "convert" /\ wk'[w].wrote # NoCondition

\* C38: a status update by a sync raises a change event of the resource it
\* synced, and when the declarations have stopped changing the controller
\* comes to rest: from some point on nothing is pending, queued, waiting for
\* a retry or in progress, so syncs, status updates and commits are finitely
\* many.
C38_StatusEchoTerminates ==
  /\ [][\A w \in DOMAIN wk :
          StatusWritten(w) =>
            /\ wk[w].key \in pending'
            /\ store'[wk[w].key].conds = <<wk'[w].wrote>>]_vars
  /\ <>[]Quiescent

\* The sync started by the event of the status update Installed has ended:
\* it found the condition on the resource, wrote nothing and raised no
\* event, and the controller is at rest once it returns.
C38_Witness ==
  \E w \in DOMAIN wk :
    /\ wk[w].pc = "done" /\ wk[w].err = None
    /\ HasCondition(wk[w].plugin.conds, Installed(wk[w].key))
    /\ wk[w].wrote = NoCondition
    /\ Len(wk[w].calls) = 2
    /\ pending = {} /\ backoff = {} /\ wq.queue = <<>>

====
